---- MODULE Spec2Model ----
(***************************************************************************)
(* A model of rustainer: the registry pull (actions/pull.rs), the          *)
(* container run with its network setup (actions/run.rs) and the stop and  *)
(* remove operation (actions/rm.rs).                                       *)
(*                                                                         *)
(* Strings of the program are sequences of one-character strings, so that  *)
(* the string operations of the code (find, rfind, replace, split,         *)
(* contains, slicing, len) are computed and not assumed.                   *)
(***************************************************************************)
EXTENDS Integers, Sequences, FiniteSets, TLC

VARIABLES
    images,      \* ./images: directory path -> (file name -> content)
    pull,        \* the pull invocation: its position and locals
    now,         \* the host clock, in seconds, when it was last read
    containers,  \* ./containers: container id -> directory content
    netns,       \* the names listed by `ip netns list`
    links,       \* the network devices of the kernel (all namespaces)
    bridge,      \* the state of the bridge device rustainer0
    ip_forward,  \* sysctl net.ipv4.ip_forward
    iptables,    \* the rules of the chains the program touches
    supervisors, \* live `ip netns exec .. unshare .. chroot` processes
    payloads,    \* ids whose container processes are alive in the namespace
    inv,         \* the run and rm invocations: position and locals
    started,     \* number of invocations started so far
    faults,      \* number of commands that failed for a reason outside the model
    call,        \* the last call of a function of the program: arguments and result
    sched        \* how the commands are given: "serial" or "concurrent"

vars == <<images, pull, now, containers, netns, links, bridge, ip_forward,
          iptables, supervisors, payloads, inv, started, faults, call, sched>>

hostVars == <<containers, netns, links, bridge, ip_forward, iptables,
              supervisors, payloads>>

lifecycleNoCall == <<now, containers, netns, links, bridge, ip_forward,
                     iptables, supervisors, payloads, inv, started, faults, sched>>

lifecycleVars == <<lifecycleNoCall, call>>

----------------------------------------------------------------------------
(* String operations of the Rust standard library, on character sequences. *)

\* s[i..] starts with pat
StartsWithAt(s, pat, i) ==
    /\ i + Len(pat) - 1 <= Len(s)
    /\ SubSeq(s, i, i + Len(pat) - 1) = pat

\* str::contains
Contains(s, pat) ==
    \E i \in 1..(Len(s) - Len(pat) + 1) : StartsWithAt(s, pat, i)

\* str::find(char): index of the first occurrence (1-based), 0 when absent
Find(s, ch) ==
    IF \E i \in 1..Len(s) : s[i] = ch
    THEN CHOOSE i \in 1..Len(s) : s[i] = ch /\ \A j \in 1..(i - 1) : s[j] # ch
    ELSE 0

\* str::rfind(char): index of the last occurrence (1-based), 0 when absent
RFind(s, ch) ==
    IF \E i \in 1..Len(s) : s[i] = ch
    THEN CHOOSE i \in 1..Len(s) : s[i] = ch /\ \A j \in (i + 1)..Len(s) : s[j] # ch
    ELSE 0

\* str::replace(pat, rep), pat not empty: left to right, non-overlapping
RECURSIVE Replace(_, _, _)
Replace(s, pat, rep) ==
    IF s = <<>> THEN <<>>
    ELSE IF StartsWithAt(s, pat, 1)
    THEN rep \o Replace(SubSeq(s, Len(pat) + 1, Len(s)), pat, rep)
    ELSE <<s[1]>> \o Replace(Tail(s), pat, rep)

\* str::split(char).collect(): always at least one part
RECURSIVE Split(_, _)
Split(s, ch) ==
    LET p == Find(s, ch) IN
    IF p = 0 THEN <<s>>
    ELSE <<SubSeq(s, 1, p - 1)>> \o Split(SubSeq(s, p + 1, Len(s)), ch)

DigitChars == <<"0", "1", "2", "3", "4", "5", "6", "7", "8", "9">>

\* u64 Display: decimal digits, no sign, no leading zero
RECURSIVE Decimal(_)
Decimal(n) ==
    IF n < 10 THEN <<DigitChars[n + 1]>>
    ELSE Decimal(n \div 10) \o <<DigitChars[(n % 10) + 1]>>

----------------------------------------------------------------------------
(* Literals.                                                               *)

sha256_      == <<"s", "h", "a", "2", "5", "6", ":">>
library_     == <<"l", "i", "b", "r", "a", "r", "y", "/">>
latest       == <<"l", "a", "t", "e", "s", "t">>
images_root  == <<".", "/", "i", "m", "a", "g", "e", "s", "/">>
manifest_json == <<"m", "a", "n", "i", "f", "e", "s", "t", ".", "j", "s", "o", "n">>
rustainer_   == <<"r", "u", "s", "t", "a", "i", "n", "e", "r", "_">>

----------------------------------------------------------------------------
(* Option<T>: None is the empty sequence, Some(x) the one-element one.     *)

NoneV == <<>>
Some(x) == <<x>>
IsSome(o) == Len(o) = 1
Unwrap(o) == o[1]

\* A function with one more (or one replaced) key.
Put(f, k, v) == [x \in DOMAIN f \cup {k} |-> IF x = k THEN v ELSE f[x]]
\* A function without a key.
Drop(f, k) == [x \in DOMAIN f \ {k} |-> f[x]]
EmptyFn == [x \in {} |-> 0]

\* no function has been called
NoCall == [fn |-> "none", args |-> <<>>, out |-> <<>>, returned |-> FALSE]

----------------------------------------------------------------------------
(* The registry, as far as a pull observes it (actions/types.rs).          *)

Layer(hex, size) == [digest |-> sha256_ \o hex, size |-> size]

ConfigA == Layer(<<"c", "a">>, 1)
ConfigB == Layer(<<"c", "b">>, 1)
Layer1  == Layer(<<"1", "1">>, 2)
Layer2  == Layer(<<"2", "2">>, 3)

ManifestA == [config |-> ConfigA, layers |-> <<Layer1, Layer2>>]
ManifestB == [config |-> ConfigB, layers |-> <<Layer2>>]
Manifests == {ManifestA, ManifestB}

DigestA == sha256_ \o <<"m", "a">>
DigestB == sha256_ \o <<"m", "b">>

\* the manifest the registry serves for a digest reference
ManifestByDigest(d) ==
    IF d = DigestA THEN Some(ManifestA)
    ELSE IF d = DigestB THEN Some(ManifestB)
    ELSE NoneV

Platform(os, arch) == Some([os |-> os, architecture |-> arch])
Entry(d, platform) == [digest |-> d, platform |-> platform]

\* Bound: the number of entries of a manifest list.
MaxEntries == 2

\* the platforms of the entries of a manifest list: none, or an os and an
\* architecture
Platforms ==
    {NoneV, Platform("linux", "amd64"), Platform("linux", "arm64"),
     Platform("windows", "amd64")}

\* The manifest lists that the registry answers with: every list of up to
\* MaxEntries platforms, the entries naming the two manifests in turn.
ManifestLists ==
    UNION {{[k \in 1..n |-> Entry(IF k % 2 = 1 THEN DigestA ELSE DigestB, ps[k])]
            : ps \in [1..n -> Platforms]} : n \in 0..MaxEntries}

\* The references given on the command line.
ImageTags ==
    { <<"a", "p", "p">>,
      <<"o", "r", "g", "/", "a", "p", "p", ":", "v", "1">> }

\* Bound: the number of pulls in one behaviour.
MaxPulls == 3

----------------------------------------------------------------------------
(* actions/pull.rs                                                         *)

\* parse_image_tag, were the reference cut at its first ':'
parse_image_tagFirstColon(image_tag) ==
    LET pos == Find(image_tag, ":") IN
    IF pos # 0
    THEN LET repository == SubSeq(image_tag, 1, pos - 1)
             tag        == SubSeq(image_tag, pos + 1, Len(image_tag))
         IN  << IF Contains(repository, <<"/">>) THEN repository
                ELSE library_ \o repository,
                tag >>
    ELSE << IF Contains(image_tag, <<"/">>) THEN image_tag
            ELSE library_ \o image_tag,
            latest >>
\* parse_image_tag: (repository, tag)
parse_image_tag(image_tag) ==
    LET pos == RFind(image_tag, ":") IN
    IF pos # 0
    THEN LET repository == SubSeq(image_tag, 1, pos - 1)
             tag        == SubSeq(image_tag, pos + 1, Len(image_tag))
         IN  << IF Contains(repository, <<"/">>) THEN repository
                ELSE library_ \o repository,
                tag >>
    ELSE << IF Contains(image_tag, <<"/">>) THEN image_tag
            ELSE library_ \o image_tag,
            latest >>

\* format!("./images/{}/{}", repository.replace('/', "_"), tag)
ImageDir(repository, tag) ==
    images_root \o Replace(repository, <<"/">>, <<"_">>) \o <<"/">> \o tag

\* digest.replace("sha256:", "")
BlobFileName(digest) == Replace(digest, sha256_, <<>>)

\* the platform selection, were it to take the first entry of the list
SelectManifestFirst(manifests) ==
    IF Len(manifests) > 0 THEN Some(manifests[1]) ELSE NoneV
\* the platform selection over a manifest list: Some(entry) or None
SelectManifest(manifests) ==
    LET matches(m) ==
            /\ IsSome(m.platform)
            /\ Unwrap(m.platform).os = "linux"
            /\ Unwrap(m.platform).architecture = "amd64"
    IN  IF \E k \in 1..Len(manifests) : matches(manifests[k])
        THEN Some(manifests[CHOOSE k \in 1..Len(manifests) :
                      /\ matches(manifests[k])
                      /\ \A j \in 1..(k - 1) : ~matches(manifests[j])])
        ELSE IF Len(manifests) > 0 THEN Some(manifests[1])
        ELSE NoneV

\* The outcomes of download_blob and of fs::write: the request or the file
\* creation fails (nothing changes), the write fails after the file was
\* created or truncated (a partial file stays), or all succeeds.
IoOutcomes == {"error", "partial", "ok"}

BlobContent(digest, complete) == [complete |-> complete, body |-> digest]
ManifestContent(m, complete) == [complete |-> complete, body |-> <<m>>]

\* the files of a directory after a write of `content` to `name`
WriteFile(files, name, content, outcome) ==
    IF outcome = "error" THEN files
    ELSE IF outcome = "partial" THEN Put(files, name, [complete |-> FALSE, body |-> <<>>])
    ELSE Put(files, name, content)

\* download_blob into image_dir
download_blob(digest, image_dir, outcome) ==
    Put(images, image_dir,
        WriteFile(images[image_dir], BlobFileName(digest),
                  BlobContent(digest, TRUE), outcome))

PullIdle ==
    [pc |-> "idle", image_tag |-> <<>>, repository |-> <<>>, tag |-> <<>>,
     manifests |-> <<>>, image_manifest |-> NoneV, image_dir |-> <<>>,
     i |-> 0, log |-> <<>>, result |-> "none"]

Event(step, arg, ok) == [step |-> step, arg |-> arg, ok |-> ok]

\* the `?` after each step of the download sequence: an error ends the pull
PullStepIgnored(ok, next) == next
PullStep(ok, next) == IF ok THEN next ELSE "failed"

PullResult(pc) ==
    IF pc = "failed" THEN "Err" ELSE IF pc = "done" THEN "Ok" ELSE "none"

\* what follows the config blob: the layer loop, then the manifest write
AfterBlobNoLayers(m, i) == "write"
AfterBlob(m, i) == IF i < Len(m.layers) THEN "layer" ELSE "write"

\* pull_image is entered
PullStart(image_tag) ==
    /\ pull.pc = "idle"
    /\ started < MaxPulls
    /\ started' = started + 1
    /\ LET parsed == parse_image_tag(image_tag) IN
       pull' = [PullIdle EXCEPT !.pc = "token", !.image_tag = image_tag,
                                !.repository = parsed[1], !.tag = parsed[2]]
    /\ call' = NoCall
    /\ UNCHANGED <<images, hostVars, now, inv, faults, sched>>

\* get_auth_token(..).await?
GetAuthToken(ok) ==
    /\ pull.pc = "token"
    /\ pull' = [pull EXCEPT
                  !.pc = PullStep(ok, "manifest"),
                  !.result = PullResult(PullStep(ok, "manifest")),
                  !.log = IF ok THEN @ ELSE Append(@, Event("resolve", <<>>, FALSE))]
    /\ UNCHANGED <<images, lifecycleVars>>

\* the resolution, were its error not to end the pull
PullFailResolveGoesOn ==
    pull' = [pull EXCEPT !.pc = "mkdir",
                         !.log = Append(@, Event("resolve", <<>>, FALSE))]
\* the `?` on get_manifest, on the selection and on get_manifest_by_digest
PullFailResolve ==
    pull' = [pull EXCEPT !.pc = "failed", !.result = "Err",
                         !.log = Append(@, Event("resolve", <<>>, FALSE))]

PullResolved(m) ==
    pull' = [pull EXCEPT !.pc = "mkdir", !.image_manifest = Some(m),
                         !.log = Append(@, Event("resolve", <<>>, TRUE))]

\* get_manifest(..).await? answered with a v2 manifest
GetManifestV2(m) ==
    /\ pull.pc = "manifest"
    /\ PullResolved(m)
    /\ UNCHANGED <<images, lifecycleVars>>

\* get_manifest(..).await? answered with a manifest list
GetManifestList(l) ==
    /\ pull.pc = "manifest"
    /\ pull' = [pull EXCEPT !.pc = "select", !.manifests = l]
    /\ UNCHANGED <<images, lifecycleVars>>

\* get_manifest(..).await? fails: non-2xx status or undecodable body
GetManifestFails ==
    /\ pull.pc = "manifest"
    /\ PullFailResolve
    /\ UNCHANGED <<images, lifecycleVars>>

\* the platform selection and get_manifest_by_digest(..).await?
SelectPlatform(ok) ==
    /\ pull.pc = "select"
    /\ LET selected == SelectManifest(pull.manifests) IN
       IF IsSome(selected) /\ ok /\ IsSome(ManifestByDigest(Unwrap(selected).digest))
       THEN PullResolved(Unwrap(ManifestByDigest(Unwrap(selected).digest)))
       ELSE PullFailResolve
    /\ UNCHANGED <<images, lifecycleVars>>

\* the manifest list is dropped at the end of the match; then
\* fs::create_dir_all(&image_dir)?
CreateImageDir(ok) ==
    /\ pull.pc = "mkdir"
    /\ LET image_dir == ImageDir(pull.repository, pull.tag) IN
       /\ pull' = [pull EXCEPT
                     !.pc = PullStep(ok, "config"),
                     !.manifests = <<>>,
                     !.result = PullResult(PullStep(ok, "config")),
                     !.image_dir = image_dir,
                     !.log = Append(@, Event("mkdir", <<>>, ok))]
       /\ images' = IF ok /\ image_dir \notin DOMAIN images
                    THEN Put(images, image_dir, EmptyFn)
                    ELSE images
    /\ UNCHANGED lifecycleVars

\* download_blob(config.digest).await?
DownloadConfig(outcome) ==
    /\ pull.pc = "config"
    /\ LET m    == Unwrap(pull.image_manifest)
           next == PullStep(outcome = "ok", AfterBlob(m, 0))
       IN  /\ images' = download_blob(m.config.digest, pull.image_dir, outcome)
           /\ pull' = [pull EXCEPT
                         !.pc = next, !.result = PullResult(next), !.i = 0,
                         !.log = Append(@, Event("blob", m.config.digest, outcome = "ok"))]
    /\ UNCHANGED lifecycleVars

\* one turn of the layer loop: download_blob(layer.digest).await?
DownloadLayer(outcome) ==
    /\ pull.pc = "layer"
    /\ LET m    == Unwrap(pull.image_manifest)
           i    == pull.i + 1
           next == PullStep(outcome = "ok", AfterBlob(m, i))
       IN  /\ images' = download_blob(m.layers[i].digest, pull.image_dir, outcome)
           /\ pull' = [pull EXCEPT
                         !.pc = next, !.result = PullResult(next), !.i = i,
                         !.log = Append(@, Event("blob", m.layers[i].digest, outcome = "ok"))]
    /\ UNCHANGED lifecycleVars

\* fs::write(manifest_path, manifest_json)?
WriteManifest(outcome) ==
    /\ pull.pc = "write"
    /\ LET m    == Unwrap(pull.image_manifest)
           next == PullStep(outcome = "ok", "done")
       IN  /\ images' = Put(images, pull.image_dir,
                            WriteFile(images[pull.image_dir], manifest_json,
                                      ManifestContent(m, TRUE), outcome))
           /\ pull' = [pull EXCEPT
                         !.pc = next, !.result = PullResult(next),
                         !.log = Append(@, Event("manifest", <<>>, outcome = "ok"))]
    /\ UNCHANGED lifecycleVars

\* pull_image has returned and the process exits
PullReturn ==
    /\ pull.pc \in {"done", "failed"}
    /\ pull' = PullIdle
    /\ UNCHANGED <<images, lifecycleVars>>

----------------------------------------------------------------------------
(* actions/images.rs                                                       *)

\* the names <repository dir>, <tag dir> of a directory ./images/<..>/<..>
DirNames(image_dir) ==
    Split(SubSeq(image_dir, Len(images_root) + 1, Len(image_dir)), "/")

\* parse_image_directory: None without manifest.json, an error when it does
\* not decode, else the row
parse_image_directory(path) ==
    LET files == images[path] IN
    IF manifest_json \notin DOMAIN files THEN [error |-> FALSE, info |-> NoneV]
    ELSE IF ~files[manifest_json].complete THEN [error |-> TRUE, info |-> NoneV]
    ELSE [error |-> FALSE,
          info |-> Some([repository |-> Replace(DirNames(path)[1], <<"_">>, <<"/">>),
                         tag |-> DirNames(path)[2],
                         image_id |->
                             LET digest == files[manifest_json].body[1].config.digest
                                 hex == IF StartsWithAt(digest, sha256_, 1)
                                        THEN SubSeq(digest, Len(sha256_) + 1, Len(digest))
                                        ELSE digest
                             IN  SubSeq(hex, 1, IF Len(hex) < 12 THEN Len(hex) ELSE 12)])]

\* list_images: the rows printed and the result; the directories looked at
\* are the directories ./images/<dir>/<dir>, and the `?` on
\* parse_image_directory returns before anything is printed
list_images ==
    LET listed == {path \in DOMAIN images :
                      Len(DirNames(path)) = 2 /\ DirNames(path)[2] # <<>>}
    IN  IF \E path \in listed : parse_image_directory(path).error
        THEN [result |-> "Err", rows |-> {}]
        ELSE [result |-> "Ok",
              rows |-> {Unwrap(parse_image_directory(path).info) :
                           path \in {q \in listed : IsSome(parse_image_directory(q).info)}}]

\* rustainer images, given while no pull runs
ListImages ==
    /\ pull.pc = "idle"
    /\ call = NoCall
    /\ call' = [fn |-> "list_images", args |-> <<>>, out |-> list_images,
                returned |-> TRUE]
    /\ UNCHANGED <<images, pull, lifecycleNoCall>>

NextPull ==
    \/ \E t \in ImageTags : PullStart(t)
    \/ \E ok \in BOOLEAN : GetAuthToken(ok)
    \/ \E m \in Manifests : GetManifestV2(m)
    \/ \E l \in ManifestLists : GetManifestList(l)
    \/ GetManifestFails
    \/ \E ok \in BOOLEAN : SelectPlatform(ok)
    \/ \E ok \in BOOLEAN : CreateImageDir(ok)
    \/ \E o \in IoOutcomes : DownloadConfig(o)
    \/ \E o \in IoOutcomes : DownloadLayer(o)
    \/ \E o \in IoOutcomes : WriteManifest(o)
    \/ PullReturn
    \/ ListImages

\* The terminals from which run and rm are invoked: invocations of different
\* terminals run at the same time.
Slots == {1, 2}

\* RunConfig as the command line fills it (main.rs, handle_run_command)
NoConfig == [image |-> <<>>, detach |-> FALSE, ports |-> <<>>, command |-> NoneV]

\* an invocation slot with no process in it
IdleInv ==
    [op |-> "none", pc |-> "idle", step |-> 0, config |-> NoConfig,
     container_id |-> <<>>, image_path |-> <<>>, manifest |-> NoneV,
     image_config |-> NoneV, i |-> 0, veth |-> <<>>, status |-> NoneV,
     cleaned |-> FALSE, spawned_at |-> 0, result |-> <<>>]

HostInitNoCall ==
    /\ now = 0
    /\ containers = EmptyFn
    /\ netns = {}
    /\ links = {}
    /\ bridge = [exists |-> FALSE, addr |-> FALSE, up |-> FALSE]
    /\ ip_forward = FALSE
    /\ iptables = [PREROUTING |-> <<>>, OUTPUT |-> <<>>,
                   POSTROUTING |-> <<>>, FORWARD |-> <<>>]
    /\ supervisors = {}
    /\ payloads = {}
    /\ inv = [i \in Slots |-> IdleInv]
    /\ started = 0
    /\ faults = 0

HostInit ==
    /\ HostInitNoCall
    /\ call = NoCall
    /\ sched = "serial"

InitPull ==
    /\ images = EmptyFn
    /\ pull = PullIdle
    /\ HostInit

SpecPull == InitPull /\ [][NextPull]_vars

----------------------------------------------------------------------------
(* Properties of pull.                                                     *)

\* the content of <dir>/manifest.json: Some(content) or None
ManifestFile(dir) ==
    IF dir \in DOMAIN images /\ manifest_json \in DOMAIN images[dir]
    THEN Some(images[dir][manifest_json])
    ELSE NoneV

\* the documented order of the steps of a pull of manifest m
ExpectedSteps(m) ==
    << <<"resolve", <<>> >>, <<"mkdir", <<>> >>, <<"blob", m.config.digest>> >>
    \o [k \in 1..Len(m.layers) |-> <<"blob", m.layers[k].digest>>]
    \o << <<"manifest", <<>> >> >>

\* the steps taken so far are the first steps of the documented order, and
\* all but the last one succeeded
InOrder(log, image_manifest) ==
    /\ \A k \in 1..(Len(log) - 1) : log[k].ok
    /\ IF IsSome(image_manifest)
       THEN LET expected == ExpectedSteps(Unwrap(image_manifest)) IN
            /\ Len(log) <= Len(expected)
            /\ \A k \in 1..Len(log) : <<log[k].step, log[k].arg>> = expected[k]
       ELSE \/ log = <<>>
            \/ log = <<Event("resolve", <<>>, FALSE)>>

\* C1: in every execution of pull, failing ones included, the steps happen in
\* the order resolve, create the image directory, download the config blob,
\* download each layer blob in manifest order, write manifest.json; and
\* manifest.json changes only in a pull all of whose earlier steps, every
\* blob download among them, succeeded.
C1_PullOrder ==
    /\ [](InOrder(pull.log, pull.image_manifest))
    /\ [][\A d \in DOMAIN images' :
            ManifestFile(d)' # ManifestFile(d)
            => /\ pull.pc = "write"
               /\ Len(pull.log) = Len(ExpectedSteps(Unwrap(pull.image_manifest))) - 1
               /\ \A k \in 1..Len(pull.log) : pull.log[k].ok]_vars

\* C1 witness: a pull of the two-layer manifest has written manifest.json.
C1_Witness ==
    /\ pull.pc = "done"
    /\ pull.image_manifest = Some(ManifestA)
    /\ Len(pull.log) = 6
    /\ IsSome(ManifestFile(pull.image_dir))

\* C2: whenever <dir>/manifest.json exists (and is a whole manifest), the files
\* named by config.digest and by every layers[i].digest, without the sha256:
\* prefix, exist in the same directory.
C2_ManifestImpliesBlobs ==
    \A d \in DOMAIN images :
        LET file == ManifestFile(d) IN
        (IsSome(file) /\ Unwrap(file).complete) =>
            LET m == Unwrap(file).body[1] IN
            /\ BlobFileName(m.config.digest) \in DOMAIN images[d]
            /\ \A i \in 1..Len(m.layers) :
                   BlobFileName(m.layers[i].digest) \in DOMAIN images[d]

\* C2 witness: a directory holds a whole manifest.json while a later pull of
\* another manifest into the same directory has failed in a blob download.
C2_Witness ==
    /\ pull.pc = "failed"
    /\ Len(pull.log) >= 3
    /\ IsSome(ManifestFile(pull.image_dir))
    /\ Unwrap(ManifestFile(pull.image_dir)).complete
    /\ Unwrap(ManifestFile(pull.image_dir)).body # pull.image_manifest

\* the entries of a manifest list whose platform is os=linux, architecture=amd64
LinuxAmd64(l) ==
    {k \in 1..Len(l) : l[k].platform = <<[os |-> "linux", architecture |-> "amd64"]>>}

\* C33: from its invocation until the manifest is resolved a pull writes
\* nothing to ./images; it goes on to create the image directory only with
\* a resolved manifest, and a pull that fails before that (the token, the
\* manifest request, an empty manifest list, the request by digest) returns
\* its error with no directory created and no file written.
C33_FailedResolveLeavesStore ==
    [][LET resolving == pull.pc \in {"token", "manifest", "select"} IN
       /\ (pull.pc = "idle" /\ pull'.pc # "idle") => images' = images
       /\ resolving =>
             /\ images' = images
             /\ pull'.pc \in {"manifest", "select", "mkdir", "failed"}
             /\ (pull'.pc = "mkdir") => IsSome(pull'.image_manifest)
             /\ (pull'.pc = "failed") =>
                    (/\ pull'.result = "Err"
                     /\ pull'.image_manifest = NoneV
                     /\ pull'.image_dir = <<>>)
       /\ (pull.pc # "failed" /\ pull'.pc = "failed" /\ pull'.image_manifest = NoneV)
             => resolving]_vars

\* C33 witness: after a pull that has stored one image, the pull of the
\* other reference has failed on the request for the manifest of the entry
\* selected from a manifest list, and ./images holds no directory for it.
C33_Witness ==
    /\ pull.pc = "failed" /\ pull.result = "Err"
    /\ pull.image_manifest = NoneV
    /\ IsSome(SelectManifest(pull.manifests))
    /\ \E e \in 1..Len(pull.log) : pull.log[e] = Event("resolve", <<>>, FALSE)
    /\ images # EmptyFn
    /\ \E dir \in DOMAIN images :
          manifest_json \in DOMAIN images[dir] /\ images[dir][manifest_json].complete
    /\ ImageDir(pull.repository, pull.tag) \notin DOMAIN images

\* C14: the platform selection takes the first entry of the list whose
\* platform is linux/amd64, or the first entry when no entry matches
\* (entries without a platform do not match), and the pull goes on with the
\* manifest of that entry unless its fetch fails; on an empty list the pull
\* fails, nothing having been created or downloaded.
C14_PlatformSelection ==
    [][(pull.pc = "select" /\ pull' # pull) =>
          LET l == pull.manifests IN
          IF l = <<>>
          THEN /\ pull'.pc = "failed"
               /\ pull'.result = "Err"
               /\ pull'.image_manifest = NoneV
               /\ images' = images
          ELSE LET k == IF LinuxAmd64(l) # {}
                        THEN CHOOSE m \in LinuxAmd64(l) : \A n \in LinuxAmd64(l) : m <= n
                        ELSE 1
               IN  \/ pull'.pc = "failed" /\ pull'.image_manifest = NoneV
                   \/ /\ pull'.pc = "mkdir"
                      /\ pull'.image_manifest = ManifestByDigest(l[k].digest)]_vars

\* C14 witness: the pull goes on with the manifest of the second entry, the
\* first linux/amd64 one, which is not the manifest of the first entry.
C14_Witness ==
    /\ pull.pc = "mkdir"
    /\ Len(pull.manifests) = 2
    /\ LinuxAmd64(pull.manifests) = {2}
    /\ pull.manifests[1].platform = Platform("windows", "amd64")
    /\ pull.manifests[1].digest # pull.manifests[2].digest
    /\ pull.image_manifest = ManifestByDigest(pull.manifests[2].digest)

\* C22: images prints exactly one row for each directory ./images/<repo>/<tag>
\* that holds a manifest.json, and no row for one that does not.
C22_OneRowPerManifest ==
    (call.fn = "list_images" /\ call.returned) =>
        LET with == {path \in DOMAIN images : manifest_json \in DOMAIN images[path]}
            Row(path) ==
                {row \in call.out.rows :
                    images_root \o Replace(row.repository, <<"/">>, <<"_">>)
                                \o <<"/">> \o row.tag = path}
        IN  /\ \A path \in with : Cardinality(Row(path)) = 1
            /\ Cardinality(call.out.rows) = Cardinality(with)

----------------------------------------------------------------------------
(* The host as run and rm see it.                                          *)

\* Bound: the clock runs from 0 to MaxTime seconds.
MaxTime == 2
\* Bound: the number of run and rm invocations in one behaviour.
MaxStarted == 3
\* Bound: the number of commands in one behaviour that fail although the
\* state of the host would let them succeed.
MaxFaults == 1

rustainer0  == <<"r", "u", "s", "t", "a", "i", "n", "e", "r", "0">>
veth_       == <<"v", "e", "t", "h", "-">>
cveth_      == <<"c", "v", "e", "t", "h", "-">>
eth0        == <<"e", "t", "h", "0">>
ip_prefix   == <<"1", "7", "2", ".", "1", "8", ".", "0", ".">>
slash16     == <<"/", "1", "6">>
bin_sh      == <<"/", "b", "i", "n", "/", "s", "h">>
port_80_8080  == <<"8", "0", ":", "8", "0", "8", "0">>
port_443_8443 == <<"4", "4", "3", ":", "8", "4", "4", "3">>
port_80       == <<"8", "0">>
image_app     == <<"a", "p", "p">>
image_org_app == <<"o", "r", "g", "/", "a", "p", "p", ":", "v", "1">>

\* format!("rustainer_{}", timestamp)
ContainerId(timestamp) == rustainer_ \o Decimal(timestamp)

\* the ids that a run can have made within the bound of the clock
ContainerIds == {ContainerId(t) : t \in 0..MaxTime}

\* the ip_suffix, were the digits 1 of the id counted in
IpSuffixByContent(container_id) ==
    ((Len(container_id)
        + Cardinality({k \in 1..Len(container_id) : container_id[k] = "1"})) % 254) + 2
\* the ip_suffix, were the length taken modulo 256
IpSuffixMod256(container_id) == (Len(container_id) % 256) + 2
\* (container_id.len() % 254) + 2, in configure_container_interface and in
\* setup_port_forwarding alike
IpSuffix(container_id) == (Len(container_id) % 254) + 2
\* format!("172.18.0.{}", ip_suffix)
ContainerIp(container_id) == ip_prefix \o Decimal(IpSuffix(container_id))

\* the image config blobs of the registry, as serde reads them (Cmd, Entrypoint)
ImageConfigOf(digest) ==
    IF digest = ConfigA.digest
    THEN [cmd |-> <<bin_sh>>, entrypoint |-> <<>>]
    ELSE [cmd |-> <<>>, entrypoint |-> <<>>]

\* The image store when run is invoked: library/app:latest was pulled
\* (ManifestA); the pull of org/app:v1 (ManifestB) failed after the config blob.
PulledImages ==
    LET whole(layer) == BlobContent(layer.digest, TRUE) IN
    Put(Put(EmptyFn,
            ImageDir(parse_image_tag(image_app)[1], parse_image_tag(image_app)[2]),
            Put(Put(Put(Put(EmptyFn,
                BlobFileName(ConfigA.digest), whole(ConfigA)),
                BlobFileName(Layer1.digest), whole(Layer1)),
                BlobFileName(Layer2.digest), whole(Layer2)),
                manifest_json, ManifestContent(ManifestA, TRUE))),
        ImageDir(parse_image_tag(image_org_app)[1], parse_image_tag(image_org_app)[2]),
        Put(EmptyFn, BlobFileName(ConfigB.digest), whole(ConfigB)))

\* The command lines of run.
RunConfigs ==
    { [image |-> image_app, detach |-> FALSE, ports |-> <<>>, command |-> NoneV],
      [image |-> image_app, detach |-> FALSE, ports |-> <<port_80_8080>>,
       command |-> Some(<<bin_sh>>)],
      [image |-> image_app, detach |-> TRUE, ports |-> <<port_80_8080, port_443_8443>>,
       command |-> NoneV],
      [image |-> image_app, detach |-> FALSE, ports |-> <<port_80>>, command |-> NoneV],
      [image |-> image_org_app, detach |-> FALSE, ports |-> <<>>, command |-> NoneV] }

\* A network device: its name, the namespace it is in (<<>>: the host), the
\* bridge it is enslaved to, and the container id whose run created its pair.
Link(name, ns, pair) ==
    [name |-> name, ns |-> ns, master |-> <<>>, up |-> FALSE, addr |-> <<>>,
     route |-> FALSE, pair |-> pair]

LinkIn(ns, name) == {l \in links : l.ns = ns /\ l.name = name}

\* the devices left when the names `names` are listed and the processes of
\* `procs` live: a namespace without a name and without a process is freed
\* with the devices in it, and a veth device goes with its peer
LinksLeft(ls, names, procs) ==
    LET freed == {l \in ls : l.ns # <<>> /\ l.ns \notin names /\ l.ns \notin procs}
    IN  {l \in ls : \A d \in freed : d.pair # l.pair}

\* an iptables rule: the target and the matches the program gives
Rule(target, dport, dest, to) ==
    [target |-> target, dport |-> dport, dest |-> dest, to |-> to]

MasqueradeRule == Rule("MASQUERADE", <<>>, <<>>, <<>>)
BridgeAcceptRule == Rule("ACCEPT", <<>>, rustainer0, <<>>)
DnatRule(host_port, ip, container_port) ==
    Rule("DNAT", Decimal(host_port), <<>>, ip \o <<":">> \o Decimal(container_port))
ForwardRule(ip, container_port) ==
    Rule("ACCEPT", Decimal(container_port), ip, <<>>)

\* iptables -A <chain> <rule>
AppendRule(chain, rule) == [iptables EXCEPT ![chain] = Append(@, rule)]

\* iptables -D <chain> <rule-spec>, on rules `rules`: the first rule that
\* is the rule-spec goes
RECURSIVE DeleteRule(_, _)
DeleteRule(rules, spec) ==
    IF rules = <<>> THEN <<>>
    ELSE IF Head(rules) = spec THEN Tail(rules)
    ELSE <<Head(rules)>> \o DeleteRule(Tail(rules), spec)

----------------------------------------------------------------------------
(* Results and positions of an invocation.                                 *)

Ok == <<"Ok", "", <<>> >>
Err(what, detail) == <<"Err", what, detail>>

At(r, pc, step) == [r EXCEPT !.pc = pc, !.step = step]
Return(r, result) == [r EXCEPT !.pc = "returned", !.step = 0, !.result = result]

\* An invocation that is not running: no process, or a foreground run
\* blocked in cmd.status() until its container exits.
Blocked(r) ==
    \/ r.pc = "idle"
    \/ r.pc = "execute_container" /\ r.step = 1

\* a foreground run that cmd.status() has woken: its container has exited
Woken(r) == r.pc = "cleanup_container_networking"

\* The invocations are one-shot commands given one after another: one runs
\* only while no other does, but for a foreground run waiting for its
\* container, during which commands are given from the other terminal; the
\* container exits when it will, so the run it wakes goes on at any time.
\* Commands given at once from the two terminals run as the kernel
\* schedules them: each is a process of its own, and nothing in the
\* program (no lock, no lock file) orders one behind the other.
Turn(i) ==
    \/ sched = "concurrent"
    \/ \A j \in Slots \ {i} : Blocked(inv[j]) \/ Woken(inv[i]) \/ Woken(inv[j])

\* a command fails for a reason outside the model only within the bound
Fault(ok) ==
    /\ ~ok => faults < MaxFaults
    /\ faults' = IF ok THEN faults ELSE faults + 1

\* a new command is given from the first free terminal
Free(i) ==
    /\ inv[i].pc = "idle"
    /\ Turn(i)
    /\ \A j \in Slots : j < i => inv[j].pc # "idle"

----------------------------------------------------------------------------
(* actions/run.rs: run_container up to the network setup                   *)

\* a run is invoked from terminal i
RunStart(i, config) ==
    /\ Free(i)
    /\ started < MaxStarted
    /\ started' = started + 1
    /\ inv' = [inv EXCEPT ![i] =
                 [IdleInv EXCEPT !.op = "run", !.pc = "find_local_image",
                                 !.config = config]]
    /\ UNCHANGED <<sched, call, images, pull, now, hostVars, faults>>

\* the lookup, were the config blob left unread until the container starts
ImageLookupErrorNoConfig(image_path) ==
    IF image_path \notin DOMAIN images THEN Some("ImageNotFoundLocally")
    ELSE LET files == images[image_path] IN
         IF manifest_json \notin DOMAIN files THEN Some("ManifestRead")
         ELSE IF ~files[manifest_json].complete THEN Some("ManifestDecode")
         ELSE NoneV
\* find_local_image, load_image_manifest, load_image_config: Some(error) or None
ImageLookupError(image_path) ==
    IF image_path \notin DOMAIN images THEN Some("ImageNotFoundLocally")
    ELSE LET files == images[image_path] IN
         IF manifest_json \notin DOMAIN files THEN Some("ManifestRead")
         ELSE IF ~files[manifest_json].complete THEN Some("ManifestDecode")
         ELSE LET config_filename ==
                      BlobFileName(files[manifest_json].body[1].config.digest)
              IN  IF config_filename \notin DOMAIN files THEN Some("ConfigRead")
                  ELSE IF ~files[config_filename].complete THEN Some("ConfigDecode")
                  ELSE NoneV

\* parse_image_tag, find_local_image, load_image_manifest, load_image_config
FindLocalImage(i) ==
    /\ Turn(i) /\ inv[i].pc = "find_local_image"
    /\ LET parsed     == parse_image_tag(inv[i].config.image)
           image_path == ImageDir(parsed[1], parsed[2])
           error      == ImageLookupError(image_path)
       IN  inv' = [inv EXCEPT ![i] =
                IF IsSome(error) THEN Return(@, Err(Unwrap(error), <<>>))
                ELSE LET m == images[image_path][manifest_json].body[1] IN
                     [At(@, "create_container_filesystem", 0) EXCEPT
                        !.image_path = image_path,
                        !.manifest = Some(m),
                        !.image_config = Some(ImageConfigOf(m.config.digest))]]
    /\ UNCHANGED <<sched, call, images, pull, now, hostVars, started, faults>>

\* the layer loop, were it left after the first layer
AfterLayersFirstOnly(m, done) ==
    IF done < 1 /\ done < Len(m.layers) THEN <<"create_container_filesystem", 1>>
    ELSE <<"create_network_namespace", 0>>
\* the position after the layer loop has done `done` layers
AfterLayers(m, done) ==
    IF done < Len(m.layers) THEN <<"create_container_filesystem", 1>>
    ELSE <<"create_network_namespace", 0>>

\* SystemTime::now() reads `timestamp`, not before the last reading of the
\* clock; then the container id and fs::create_dir_all(&rootfs_path)?
CreateContainerDir(i, ok, timestamp) ==
    /\ Fault(ok)
    /\ Turn(i) /\ inv[i].pc = "create_container_filesystem" /\ inv[i].step = 0
    /\ now' = timestamp
    /\ LET container_id == ContainerId(timestamp)
           next == AfterLayers(Unwrap(inv[i].manifest), 0)
       IN  /\ inv' = [inv EXCEPT ![i] =
                    IF ok THEN [At(@, next[1], next[2]) EXCEPT
                                  !.container_id = container_id, !.i = 0]
                    ELSE Return([@ EXCEPT !.container_id = container_id],
                                Err("StoreIO", <<>>))]
           /\ containers' =
                IF ok /\ container_id \notin DOMAIN containers
                THEN Put(containers, container_id, [rootfs |-> {}, metadata |-> NoneV])
                ELSE containers
    /\ UNCHANGED <<sched, call, images, pull, netns, links, bridge, ip_forward, iptables,
                   supervisors, payloads, started>>

\* one turn of the layer loop: extract_layer(..).await?, tar -xzf <blob> -C <rootfs>
ExtractLayer(i, ok) ==
    /\ Fault(ok)
    /\ Turn(i) /\ inv[i].pc = "create_container_filesystem" /\ inv[i].step = 1
    /\ LET m     == Unwrap(inv[i].manifest)
           layer == m.layers[inv[i].i + 1]
           id    == inv[i].container_id
           files == images[inv[i].image_path]
           extracted ==
               /\ ok
               /\ id \in DOMAIN containers
               /\ BlobFileName(layer.digest) \in DOMAIN files
               /\ files[BlobFileName(layer.digest)].complete
           next == AfterLayers(m, inv[i].i + 1)
       IN  /\ inv' = [inv EXCEPT ![i] =
                    IF extracted THEN [At(@, next[1], next[2]) EXCEPT !.i = @ + 1]
                    ELSE Return(@, Err("Rootfs", layer.digest))]
           /\ containers' =
                IF extracted
                THEN [containers EXCEPT ![id].rootfs = @ \cup {layer.digest}]
                ELSE containers
    /\ UNCHANGED <<sched, call, images, pull, now, netns, links, bridge, ip_forward, iptables,
                   supervisors, payloads, started>>

----------------------------------------------------------------------------
(* actions/run.rs: the network setup                                       *)

IsDigit(c) == \E d \in 1..10 : DigitChars[d] = c
DigitValue(c) == (CHOOSE d \in 1..10 : DigitChars[d] = c) - 1

RECURSIVE DigitsValue(_)
DigitsValue(s) ==
    IF s = <<>> THEN 0
    ELSE DigitsValue(SubSeq(s, 1, Len(s) - 1)) * 10 + DigitValue(s[Len(s)])

\* str::parse::<u16>(): an optional '+', then digits, at most 65535
ParseU16(s) ==
    LET digits == IF Len(s) > 0 /\ s[1] = "+" THEN Tail(s) ELSE s IN
    IF digits = <<>> \/ \E k \in 1..Len(digits) : ~IsDigit(digits[k]) THEN NoneV
    ELSE IF Len(digits) > 5 /\ \E k \in 1..(Len(digits) - 5) : digits[k] # "0" THEN NoneV
    ELSE IF DigitsValue(digits) > 65535 THEN NoneV
    ELSE Some(DigitsValue(digits))

\* parse_port_mapping, were the parts behind the second left unlooked at
parse_port_mappingFirstTwo(port_mapping) ==
    LET parts == Split(port_mapping, ":") IN
    IF Len(parts) < 2 THEN NoneV
    ELSE IF ~IsSome(ParseU16(parts[1])) \/ ~IsSome(ParseU16(parts[2])) THEN NoneV
    ELSE Some(<<Unwrap(ParseU16(parts[1])), Unwrap(ParseU16(parts[2]))>>)
\* parse_port_mapping: Some(<<host_port, container_port>>) or None (the error)
parse_port_mapping(port_mapping) ==
    LET parts == Split(port_mapping, ":") IN
    IF Len(parts) # 2 THEN NoneV
    ELSE IF ~IsSome(ParseU16(parts[1])) \/ ~IsSome(ParseU16(parts[2])) THEN NoneV
    ELSE Some(<<Unwrap(ParseU16(parts[1])), Unwrap(ParseU16(parts[2]))>>)

\* format!("veth-{}", &container_id[..8]), format!("cveth-{}", &container_id[..8])
HostVeth(container_id) == veth_ \o SubSeq(container_id, 1, 8)
ContainerVeth(container_id) == cveth_ \o SubSeq(container_id, 1, 8)

NetError(command) == Err("NetworkSetup", command)

\* a command of the setup: on success go on, else return the error (the `?`)
Then(r, success, pc, step, command) ==
    IF success THEN At(r, pc, step) ELSE Return(r, NetError(command))

\* create_network_namespace: ip netns add <container_id>; "File exists" is success
CreateNetworkNamespace(i, ok) ==
    /\ Fault(ok)
    /\ Turn(i) /\ inv[i].pc = "create_network_namespace"
    /\ LET id == inv[i].container_id IN
       /\ netns' = IF ok THEN netns \cup {id} ELSE netns
       /\ inv' = [inv EXCEPT ![i] = Then(@, ok, "ensure_bridge_exists", 0, <<"netns add">>)]
    /\ UNCHANGED <<sched, call, images, pull, now, containers, links, bridge, ip_forward,
                   iptables, supervisors, payloads, started>>

\* ensure_bridge_exists: ip link show; when it fails ip link add, ip addr add,
\* ip link set up, then setup_nat_rules
EnsureBridgeExists(i, ok) ==
    /\ Fault(ok)
    /\ Turn(i) /\ inv[i].pc = "ensure_bridge_exists"
    /\ LET step == inv[i].step
           success ==
               CASE step = 0 -> ok /\ bridge.exists
                 [] step = 1 -> ok /\ ~bridge.exists
                 [] step = 2 -> ok /\ bridge.exists /\ ~bridge.addr
                 [] step = 3 -> ok /\ bridge.exists
       IN  /\ bridge' =
                IF ~success THEN bridge
                ELSE CASE step = 0 -> bridge
                       [] step = 1 -> [bridge EXCEPT !.exists = TRUE]
                       [] step = 2 -> [bridge EXCEPT !.addr = TRUE]
                       [] step = 3 -> [bridge EXCEPT !.up = TRUE]
           /\ inv' = [inv EXCEPT ![i] =
                CASE step = 0 -> IF success THEN At(@, "create_veth_pair", 0)
                                 ELSE At(@, "ensure_bridge_exists", 1)
                  [] step = 1 -> Then(@, success, "ensure_bridge_exists", 2, <<"bridge add">>)
                  [] step = 2 -> Then(@, success, "ensure_bridge_exists", 3, <<"bridge addr">>)
                  [] step = 3 -> Then(@, success, "setup_nat_rules", 0, <<"bridge up">>)]
    /\ UNCHANGED <<sched, call, images, pull, now, containers, netns, links, ip_forward,
                   iptables, supervisors, payloads, started>>

\* setup_nat_rules: sysctl -w net.ipv4.ip_forward=1 (an error returns), then
\* the MASQUERADE and the bridge FORWARD ACCEPT rules (an error only warns)
SetupNatRules(i, ok) ==
    /\ Fault(ok)
    /\ Turn(i) /\ inv[i].pc = "setup_nat_rules"
    /\ LET step == inv[i].step IN
       /\ ip_forward' = IF step = 0 /\ ok THEN TRUE ELSE ip_forward
       /\ iptables' =
            IF step = 1 /\ ok THEN AppendRule("POSTROUTING", MasqueradeRule)
            ELSE IF step = 2 /\ ok THEN AppendRule("FORWARD", BridgeAcceptRule)
            ELSE iptables
       /\ inv' = [inv EXCEPT ![i] =
            CASE step = 0 -> Then(@, ok, "setup_nat_rules", 1, <<"sysctl">>)
              [] step = 1 -> At(@, "setup_nat_rules", 2)
              [] step = 2 -> At(@, "create_veth_pair", 0)]
    /\ UNCHANGED <<sched, call, images, pull, now, containers, netns, links, bridge,
                   supervisors, payloads, started>>

\* create_veth_pair: ip link add <host> type veth peer name <container>, then
\* ip link set <host> up
CreateVethPair(i, ok) ==
    /\ Fault(ok)
    /\ Turn(i) /\ inv[i].pc = "create_veth_pair"
    /\ LET id   == inv[i].container_id
           hv   == HostVeth(id)
           cv   == ContainerVeth(id)
           step == inv[i].step
           success ==
               IF step = 0 THEN ok /\ LinkIn(<<>>, hv) = {} /\ LinkIn(<<>>, cv) = {}
               ELSE ok /\ LinkIn(<<>>, hv) # {}
       IN  /\ links' =
                IF ~success THEN links
                ELSE IF step = 0 THEN links \cup {Link(hv, <<>>, id), Link(cv, <<>>, id)}
                ELSE {IF l.ns = <<>> /\ l.name = hv THEN [l EXCEPT !.up = TRUE] ELSE l
                      : l \in links}
           /\ inv' = [inv EXCEPT ![i] =
                IF step = 0
                THEN [Then(@, success, "create_veth_pair", 1, <<"veth add">>)
                        EXCEPT !.veth = IF success THEN <<hv, cv>> ELSE @]
                ELSE Then(@, success, "attach_veth_to_bridge", 0, <<"veth up">>)]
    /\ UNCHANGED <<sched, call, images, pull, now, containers, netns, bridge, ip_forward,
                   iptables, supervisors, payloads, started>>

\* attach_veth_to_bridge: ip link set <veth> master rustainer0; called for
\* the host side (step 0) and then for the container side (step 1)
AttachVethToBridge(i, ok) ==
    /\ Fault(ok)
    /\ Turn(i) /\ inv[i].pc = "attach_veth_to_bridge"
    /\ LET step      == inv[i].step
           veth_name == inv[i].veth[step + 1]
           success   == ok /\ LinkIn(<<>>, veth_name) # {} /\ bridge.exists
       IN  /\ links' =
                IF ~success THEN links
                ELSE {IF l.ns = <<>> /\ l.name = veth_name
                      THEN [l EXCEPT !.master = rustainer0] ELSE l : l \in links}
           /\ inv' = [inv EXCEPT ![i] =
                IF step = 0
                THEN Then(@, success, "attach_veth_to_bridge", 1, <<"attach host">>)
                ELSE Then(@, success, "move_veth_to_namespace", 0, <<"attach container">>)]
    /\ UNCHANGED <<sched, call, images, pull, now, containers, netns, bridge, ip_forward,
                   iptables, supervisors, payloads, started>>

\* move_veth_to_namespace: ip link set <container veth> netns <container_id>;
\* the moved device leaves its bridge and is down
MoveVethToNamespace(i, ok) ==
    /\ Fault(ok)
    /\ Turn(i) /\ inv[i].pc = "move_veth_to_namespace"
    /\ LET id        == inv[i].container_id
           veth_name == inv[i].veth[2]
           success   == ok /\ LinkIn(<<>>, veth_name) # {} /\ id \in netns
       IN  /\ links' =
                IF ~success THEN links
                ELSE {IF l.ns = <<>> /\ l.name = veth_name
                      THEN [l EXCEPT !.ns = id, !.master = <<>>, !.up = FALSE] ELSE l
                      : l \in links}
           /\ inv' = [inv EXCEPT ![i] =
                Then(@, success, "configure_container_interface", 0, <<"move">>)]
    /\ UNCHANGED <<sched, call, images, pull, now, containers, netns, bridge, ip_forward,
                   iptables, supervisors, payloads, started>>

\* configure_container_interface, all by ip netns exec <container_id>: rename
\* to eth0, lo up, addr add <container_ip>/16, eth0 up, route add default
\* ("File exists" is success)
ConfigureContainerInterface(i, ok) ==
    /\ Fault(ok)
    /\ Turn(i) /\ inv[i].pc = "configure_container_interface"
    /\ LET id   == inv[i].container_id
           step == inv[i].step
           container_ip == ContainerIp(id) \o slash16
           inside == ok /\ id \in netns
           success ==
               CASE step = 0 -> inside /\ LinkIn(id, inv[i].veth[2]) # {}
                                       /\ LinkIn(id, eth0) = {}
                 [] step = 1 -> inside
                 [] step = 2 -> inside /\ \E l \in LinkIn(id, eth0) : l.addr # container_ip
                 [] step = 3 -> inside /\ LinkIn(id, eth0) # {}
                 [] step = 4 -> inside /\ \E l \in LinkIn(id, eth0) : l.up /\ l.addr # <<>>
       IN  /\ links' =
                IF ~success THEN links
                ELSE {IF l.ns # id THEN l
                      ELSE CASE step = 0 -> IF l.name = inv[i].veth[2]
                                            THEN [l EXCEPT !.name = eth0] ELSE l
                             [] step = 1 -> l
                             [] step = 2 -> IF l.name = eth0
                                            THEN [l EXCEPT !.addr = container_ip] ELSE l
                             [] step = 3 -> IF l.name = eth0
                                            THEN [l EXCEPT !.up = TRUE] ELSE l
                             [] step = 4 -> IF l.name = eth0
                                            THEN [l EXCEPT !.route = TRUE] ELSE l
                      : l \in links}
           /\ inv' = [inv EXCEPT ![i] =
                CASE step = 0 -> Then(@, success, "configure_container_interface", 1, <<"rename">>)
                  [] step = 1 -> Then(@, success, "configure_container_interface", 2, <<"lo up">>)
                  [] step = 2 -> Then(@, success, "configure_container_interface", 3, <<"addr add">>)
                  [] step = 3 -> Then(@, success, "configure_container_interface", 4, <<"eth0 up">>)
                  [] step = 4 ->
                       IF inv[i].config.ports # <<>>
                       THEN [Then(@, success, "setup_port_forwarding", 0, <<"route add">>)
                               EXCEPT !.i = 0]
                       ELSE Then(@, success, "execute_container", 0, <<"route add">>)]
    /\ UNCHANGED <<sched, call, images, pull, now, containers, netns, bridge, ip_forward,
                   iptables, supervisors, payloads, started>>

\* setup_port_forwarding, one mapping at a time: parse_port_mapping(..)? and
\* the PREROUTING DNAT rule (step 0), then the FORWARD ACCEPT rule (step 1)
SetupPortForwarding(i, ok) ==
    /\ Fault(ok)
    /\ Turn(i) /\ inv[i].pc = "setup_port_forwarding"
    /\ LET id     == inv[i].container_id
           step   == inv[i].step
           ports  == inv[i].config.ports
           parsed == parse_port_mapping(ports[inv[i].i + 1])
           container_ip == ContainerIp(id)
       IN  IF ~IsSome(parsed)
           THEN /\ inv' = [inv EXCEPT ![i] =
                             Return(@, Err("PortSpec", ports[inv[i].i + 1]))]
                /\ iptables' = iptables
           ELSE /\ iptables' =
                     IF ~ok THEN iptables
                     ELSE IF step = 0
                     THEN AppendRule("PREROUTING",
                              DnatRule(Unwrap(parsed)[1], container_ip, Unwrap(parsed)[2]))
                     ELSE AppendRule("FORWARD", ForwardRule(container_ip, Unwrap(parsed)[2]))
                /\ inv' = [inv EXCEPT ![i] =
                     IF step = 0 THEN Then(@, ok, "setup_port_forwarding", 1, <<"dnat">>)
                     ELSE IF inv[i].i + 1 < Len(ports)
                     THEN [Then(@, ok, "setup_port_forwarding", 0, <<"forward">>)
                             EXCEPT !.i = IF ok THEN @ + 1 ELSE @]
                     ELSE Then(@, ok, "execute_container", 0, <<"forward">>)]
    /\ UNCHANGED <<sched, call, images, pull, now, containers, netns, links, bridge, ip_forward,
                   supervisors, payloads, started>>

----------------------------------------------------------------------------
(* actions/run.rs: the container process and the teardown                  *)

\* Program constant: the seconds a detached run sleeps after the spawn.
DetachSleepSecs == 2

\* for env_var in envs { if let Some(pos) = env_var.find('=') { insert } }:
\* each entry is cut at its first '=' and inserted, one without is passed over
RECURSIVE InsertEnvs(_, _)
InsertEnvs(env_map, envs) ==
    IF envs = <<>> THEN env_map
    ELSE LET env_var == Head(envs)
             pos     == Find(env_var, "=")
         IN  InsertEnvs(IF pos # 0
                        THEN Put(env_map, SubSeq(env_var, 1, pos - 1),
                                 SubSeq(env_var, pos + 1, Len(env_var)))
                        ELSE env_map,
                        Tail(envs))

\* prepare_environment, were the entries of the image inserted last
prepare_environmentImageLast(user_envs, image_envs) ==
    InsertEnvs(InsertEnvs(EmptyFn, user_envs), image_envs)
\* prepare_environment
prepare_environment(user_envs, image_envs) ==
    InsertEnvs(InsertEnvs(EmptyFn, image_envs), user_envs)

\* execute_container: the environment of the process that Command::new("ip")
\* starts, which ip netns exec, unshare and chroot hand on to the command of
\* the container: the environment of the invoking process (the Command is
\* built without env_clear()), with cmd.env(key, value) for each entry of
\* env_vars setting or replacing a variable
ChildEnv(host_env, env_vars) ==
    [key \in DOMAIN host_env \cup DOMAIN env_vars |->
        IF key \in DOMAIN env_vars THEN env_vars[key] ELSE host_env[key]]

\* prepare_command, were the image Cmd not appended to the Entrypoint
prepare_commandEntrypointOnly(user_cmd, image_cmd, image_entrypoint) ==
    IF IsSome(user_cmd) THEN Unwrap(user_cmd)
    ELSE IF image_entrypoint # <<>> THEN image_entrypoint
    ELSE IF image_cmd # <<>> THEN image_cmd
    ELSE <<bin_sh>>
\* prepare_command
prepare_command(user_cmd, image_cmd, image_entrypoint) ==
    IF IsSome(user_cmd) THEN Unwrap(user_cmd)
    ELSE IF image_entrypoint # <<>> THEN image_entrypoint \o image_cmd
    ELSE IF image_cmd # <<>> THEN image_cmd
    ELSE <<bin_sh>>

\* A namespace that lost its name while processes live in it stays in the
\* kernel, with its devices, until they exit: it is known by Anon(name).
Anon(name) == <<"#">> \o name
BaseId(key) == IF key[1] = "#" THEN Tail(key) ELSE key

\* ip netns delete <name>, done: <<netns, links, payloads>> after it
NetnsDeleted(name) ==
    LET names  == netns \ {name}
        kept   == name \in payloads
        procs  == IF kept THEN (payloads \ {name}) \cup {Anon(name)} ELSE payloads
        moved  == {IF l.ns = name /\ kept THEN [l EXCEPT !.ns = Anon(name)] ELSE l
                   : l \in links}
    IN  <<names, LinksLeft(moved, names, procs), procs>>

ExitStatus(code) == [success |-> code = Some(0), code |-> code]

\* whether the foreground branch calls cleanup_container_networking, were
\* the teardown left to the successful exits
TearsDownOnSuccessOnly(status) == status.success
\* whether the foreground branch calls cleanup_container_networking after
\* cmd.status()? has returned `status`: always
TearsDown(status) == TRUE

\* the position after cmd.status()? has returned
AfterWait(r) == At(r, "cleanup_container_networking", 0)

\* the waiting foreground run of container id learns the exit status
Reaped(id, code) ==
    [i \in Slots |->
        IF /\ inv[i].pc = "execute_container" /\ inv[i].step = 1
           /\ inv[i].container_id = id
        THEN AfterWait([inv[i] EXCEPT !.status = Some(ExitStatus(code))])
        ELSE inv[i]]

\* the detached branch after the 2 s sleep: return Ok(())
AfterSleep(r) == Return(r, Ok)

\* execute_container up to the spawn: the check of the command, then
\* ip netns exec <id> unshare .. chroot <rootfs> <command> is started
ExecuteContainer(i) ==
    /\ Turn(i) /\ inv[i].pc = "execute_container" /\ inv[i].step = 0
    /\ LET id      == inv[i].container_id
           config  == Unwrap(inv[i].image_config)
           command == prepare_command(inv[i].config.command, config.cmd, config.entrypoint)
       IN  IF command = <<>>
           THEN /\ inv' = [inv EXCEPT ![i] = Return(@, Err("NoCommand", <<>>))]
                /\ UNCHANGED <<supervisors, payloads>>
           ELSE /\ supervisors' = supervisors \cup {id}
                /\ payloads' = IF id \in netns /\ id \in DOMAIN containers
                               THEN payloads \cup {id} ELSE payloads
                /\ inv' = [inv EXCEPT ![i] =
                     [At(@, "execute_container", IF inv[i].config.detach THEN 2 ELSE 1)
                        EXCEPT !.spawned_at = now]]
    /\ UNCHANGED <<sched, call, images, pull, now, containers, netns, links, bridge, ip_forward,
                   iptables, started, faults>>

\* the processes of a container exit with `code`, and with them the
\* supervising process if it still lives
PayloadExit(key, code) ==
    /\ key \in payloads
    /\ payloads' = payloads \ {key}
    /\ supervisors' = supervisors \ {BaseId(key)}
    /\ links' = LinksLeft(links, netns, payloads')
    /\ inv' = IF BaseId(key) \in supervisors THEN Reaped(BaseId(key), Some(code)) ELSE inv
    /\ UNCHANGED <<sched, call, images, pull, now, containers, netns, bridge, ip_forward,
                   iptables, started, faults>>

\* ip netns exec fails (no such namespace, no rootfs): the supervising
\* process exits non-zero without having started the container
SupervisorFails(id) ==
    /\ id \in supervisors
    /\ id \notin payloads /\ Anon(id) \notin payloads
    /\ supervisors' = supervisors \ {id}
    /\ inv' = Reaped(id, Some(1))
    /\ UNCHANGED <<sched, call, images, pull, now, containers, netns, links, bridge, ip_forward,
                   iptables, payloads, started, faults>>

\* the detached branch: tokio::time::sleep(2 s), then return Ok(())
DetachedReturn(i) ==
    /\ Turn(i) /\ inv[i].pc = "execute_container" /\ inv[i].step = 2
    /\ inv[i].spawned_at + DetachSleepSecs <= MaxTime
    /\ now' = IF now >= inv[i].spawned_at + DetachSleepSecs THEN now
              ELSE inv[i].spawned_at + DetachSleepSecs
    /\ inv' = [inv EXCEPT ![i] = AfterSleep(@)]
    /\ UNCHANGED <<sched, call, images, pull, hostVars, started, faults>>

\* the end of execute_container in the foreground: the exit status decides
ExitResult(status) ==
    IF ~status.success THEN Err("ContainerExit", status.code) ELSE Ok

\* The foreground branch after the wait: cleanup_container_networking, that
\* is ip netns delete <container_id>, whose failure only warns; then the
\* result by the exit status.
CleanupContainerNetworking(i, ok) ==
    /\ Fault(ok)
    /\ Turn(i) /\ inv[i].pc = "cleanup_container_networking"
    /\ LET id      == inv[i].container_id
           status  == Unwrap(inv[i].status)
           success == TearsDown(status) /\ ok /\ id \in netns
           after   == NetnsDeleted(id)
       IN  /\ netns' = IF success THEN after[1] ELSE netns
           /\ links' = IF success THEN after[2] ELSE links
           /\ payloads' = IF success THEN after[3] ELSE payloads
           /\ inv' = [inv EXCEPT ![i] =
                        Return([@ EXCEPT !.cleaned = TearsDown(status)], ExitResult(status))]
    /\ UNCHANGED <<sched, call, images, pull, now, containers, bridge, ip_forward, iptables,
                   supervisors, started>>

\* main returns: the process of the invocation is gone
ProcessExit(i) ==
    /\ inv[i].pc = "returned"
    /\ inv' = [inv EXCEPT ![i] = IdleInv]
    /\ UNCHANGED <<sched, call, images, pull, now, hostVars, started, faults>>


----------------------------------------------------------------------------
(* actions/rm.rs                                                           *)

\* fs::metadata(&container_dir).is_ok(), were the check left out
ContainerDirExistsUnchecked(container_id) == TRUE
\* fs::metadata(&container_dir).is_ok()
ContainerDirExists(container_id) == container_id \in DOMAIN containers

\* rm <container_id> is invoked from terminal i
RmStart(i, container_id) ==
    /\ Free(i)
    /\ started < MaxStarted
    /\ started' = started + 1
    /\ inv' = [inv EXCEPT ![i] =
                 [IdleInv EXCEPT !.op = "rm", !.pc = "remove_container",
                                 !.container_id = container_id]]
    /\ UNCHANGED <<sched, call, images, pull, now, hostVars, faults>>

\* remove_container: the directory check
RemoveContainer(i) ==
    /\ Turn(i) /\ inv[i].pc = "remove_container" /\ inv[i].step = 0
    /\ inv' = [inv EXCEPT ![i] =
                 IF ContainerDirExists(@.container_id) THEN At(@, "stop_container", 0)
                 ELSE Return(@, Err("ContainerNotFound", @.container_id))]
    /\ UNCHANGED <<sched, call, images, pull, now, hostVars, started, faults>>

\* the ports of metadata.json; none when the file is missing or unreadable
MetadataPorts(container_id) ==
    IF container_id \in DOMAIN containers /\ IsSome(containers[container_id].metadata)
    THEN Unwrap(containers[container_id].metadata).ports
    ELSE <<>>

\* the loop over the ports: iptables -t nat -D PREROUTING|OUTPUT -p tcp
\* --dport <host_port> -j DNAT for every mapping of two parts
RECURSIVE DeletePortRules(_, _)
DeletePortRules(tables, ports) ==
    IF ports = <<>> THEN tables
    ELSE LET parts == Split(Head(ports), ":")
             spec  == Rule("DNAT", parts[1], <<>>, <<>>)
         IN  DeletePortRules(
                 IF Len(parts) = 2
                 THEN [tables EXCEPT !.PREROUTING = DeleteRule(@, spec),
                                     !.OUTPUT = DeleteRule(@, spec)]
                 ELSE tables,
                 Tail(ports))

\* String::from_utf8_lossy(&output.stdout).contains(container_id)
NetnsListContains(container_id) == \E name \in netns : Contains(name, container_id)

\* the lines of ps -ef that hold container_id and chroot or unshare: the
\* supervising processes of the containers whose id holds container_id
PsMatches(container_id) == {p \in supervisors : Contains(p, container_id)}

\* the flush, were it done with the namespace only (inside the `if`)
FlushForwardIfListed(container_id) ==
    IF container_id \in netns THEN [iptables EXCEPT !.FORWARD = <<>>] ELSE iptables
\* iptables -F FORWARD, the last command of stop_container
FlushForward(container_id) == [iptables EXCEPT !.FORWARD = <<>>]

\* stop_container: the port rules (step 0), ip netns list (1), the kill of
\* one matching process (2), ip netns delete after the sleep (3),
\* iptables -F FORWARD (4)
StopContainer(i, ok) ==
    /\ Fault(ok)
    /\ Turn(i) /\ inv[i].pc = "stop_container"
    /\ LET id    == inv[i].container_id
           step  == inv[i].step
           after == NetnsDeleted(id)
           deleted == step = 3 /\ ok /\ id \in netns
       IN  /\ iptables' =
                CASE step = 0 -> DeletePortRules(iptables, MetadataPorts(id))
                  [] step = 4 /\ ok -> FlushForward(id)
                  [] OTHER -> iptables
           /\ netns' = IF deleted THEN after[1] ELSE netns
           /\ links' = IF deleted THEN after[2] ELSE links
           /\ payloads' = IF deleted THEN after[3] ELSE payloads
           /\ IF step = 2 /\ PsMatches(id) # {}
              THEN \E victim \in PsMatches(id) :
                      /\ supervisors' = supervisors \ {victim}
                      /\ inv' = [Reaped(victim, NoneV) EXCEPT ![i] = At(@, "stop_container", 3)]
              ELSE /\ supervisors' = supervisors
                   /\ inv' = [inv EXCEPT ![i] =
                        CASE step = 0 -> At(@, "stop_container", 1)
                          [] step = 1 -> IF ok /\ NetnsListContains(id)
                                         THEN At(@, "stop_container", 2)
                                         ELSE At(@, "stop_container", 4)
                          [] step = 2 -> At(@, "stop_container", 3)
                          [] step = 3 -> At(@, "stop_container", 4)
                          [] step = 4 -> At(@, "remove_container", 1)]
    /\ UNCHANGED <<sched, call, images, pull, now, containers, bridge, ip_forward, started>>

\* remove_container after the stop: fs::remove_dir_all(&container_dir)?
RemoveDirAll(i, ok) ==
    /\ Fault(ok)
    /\ Turn(i) /\ inv[i].pc = "remove_container" /\ inv[i].step = 1
    /\ LET id == inv[i].container_id
           success == ok /\ id \in DOMAIN containers
       IN  /\ containers' = IF success THEN Drop(containers, id) ELSE containers
           /\ inv' = [inv EXCEPT ![i] =
                        IF success THEN Return(@, Ok) ELSE Return(@, Err("StoreIO", <<>>))]
    /\ UNCHANGED <<sched, call, images, pull, now, netns, links, bridge, ip_forward, iptables,
                   supervisors, payloads, started>>

----------------------------------------------------------------------------
(* The runs and removals on one host.                                      *)

Init ==
    /\ images = PulledImages
    /\ pull = PullIdle
    /\ HostInit

Next ==
    \/ \E i \in Slots, config \in RunConfigs : RunStart(i, config)
    \/ \E i \in Slots : FindLocalImage(i)
    \/ \E i \in Slots, ok \in BOOLEAN, t \in now..MaxTime : CreateContainerDir(i, ok, t)
    \/ \E i \in Slots, ok \in BOOLEAN : ExtractLayer(i, ok)
    \/ \E i \in Slots, ok \in BOOLEAN : CreateNetworkNamespace(i, ok)
    \/ \E i \in Slots, ok \in BOOLEAN : EnsureBridgeExists(i, ok)
    \/ \E i \in Slots, ok \in BOOLEAN : SetupNatRules(i, ok)
    \/ \E i \in Slots, ok \in BOOLEAN : CreateVethPair(i, ok)
    \/ \E i \in Slots, ok \in BOOLEAN : AttachVethToBridge(i, ok)
    \/ \E i \in Slots, ok \in BOOLEAN : MoveVethToNamespace(i, ok)
    \/ \E i \in Slots, ok \in BOOLEAN : ConfigureContainerInterface(i, ok)
    \/ \E i \in Slots, ok \in BOOLEAN : SetupPortForwarding(i, ok)
    \/ \E i \in Slots : ExecuteContainer(i)
    \/ \E key \in payloads, code \in {0, 1} : PayloadExit(key, code)
    \/ \E id \in supervisors : SupervisorFails(id)
    \/ \E i \in Slots : DetachedReturn(i)
    \/ \E i \in Slots, ok \in BOOLEAN : CleanupContainerNetworking(i, ok)
    \/ \E i \in Slots, id \in ContainerIds : RmStart(i, id)
    \/ \E i \in Slots : RemoveContainer(i)
    \/ \E i \in Slots, ok \in BOOLEAN : StopContainer(i, ok)
    \/ \E i \in Slots, ok \in BOOLEAN : RemoveDirAll(i, ok)
    \/ \E i \in Slots : ProcessExit(i)

Spec == Init /\ [][Next]_vars

----------------------------------------------------------------------------
(* Two commands given at once on one host.                                 *)

\* The two commands are the last two of the bound: the commands given
\* before them have left nothing on the host (runs of an image that is not
\* in ./images, rm of an id that has no directory), and no command of the
\* two fails for a reason outside the model: a failure is the program's own.
InitRace ==
    /\ images = PulledImages
    /\ pull = PullIdle
    /\ now = 0
    /\ containers = EmptyFn
    /\ netns = {}
    /\ links = {}
    /\ bridge = [exists |-> FALSE, addr |-> FALSE, up |-> FALSE]
    /\ ip_forward = FALSE
    /\ iptables = [PREROUTING |-> <<>>, OUTPUT |-> <<>>,
                   POSTROUTING |-> <<>>, FORWARD |-> <<>>]
    /\ supervisors = {}
    /\ payloads = {}
    /\ inv = [i \in Slots |-> IdleInv]
    /\ started = MaxStarted - 2
    /\ faults = MaxFaults
    /\ call = NoCall
    /\ sched = "concurrent"

SpecRace == InitRace /\ [][Next]_vars

\* C24: of two runs that go through ensure_bridge_exists at the same time on
\* a host without the bridge, none fails because the other has created the
\* bridge first: no run returns the error of `ip link add rustainer0`.
C24_BridgeRaceTolerated ==
    \A i \in Slots :
        (inv[i].op = "run" /\ inv[i].pc = "returned")
            => inv[i].result # NetError(<<"bridge add">>)

----------------------------------------------------------------------------
(* What run and rm leave on the host.                                      *)

\* the invocations that have returned and whose process has not yet gone
Returned(op) == {i \in Slots : inv[i].op = op /\ inv[i].pc = "returned"}

\* the veth devices that the run of container_id created
VethsOf(container_id) == {l \in links : l.pair = container_id}

\* the DNAT rules of a chain that forward to the address of container_id
DnatRulesTo(chain, container_id) ==
    {k \in 1..Len(iptables[chain]) :
        /\ iptables[chain][k].target = "DNAT"
        /\ StartsWithAt(iptables[chain][k].to, ContainerIp(container_id) \o <<":">>, 1)}

\* the FORWARD ACCEPT rules for the address of container_id
ForwardRulesTo(container_id) ==
    {k \in 1..Len(iptables.FORWARD) :
        iptables.FORWARD[k].dest = ContainerIp(container_id)}

\* nothing of the network of container_id is left on the host
NoNetworkOf(container_id) ==
    /\ container_id \notin netns
    /\ VethsOf(container_id) = {}
    /\ DnatRulesTo("PREROUTING", container_id) = {}
    /\ DnatRulesTo("OUTPUT", container_id) = {}
    /\ ForwardRulesTo(container_id) = {}

\* C3: when a network setup step fails after the namespace was created (a
\* failing command or a malformed port mapping), then as run returns its
\* error nothing created for that container remains: not its netns, not its
\* veth devices, not its iptables rules.
C3_FailedSetupLeavesNothing ==
    \A i \in Returned("run") :
        (inv[i].result[1] = "Err" /\ inv[i].result[2] \in {"NetworkSetup", "PortSpec"})
            => NoNetworkOf(inv[i].container_id)

\* C4: when a foreground run that was given port mappings returns after its
\* child exited, and no command has failed, everything its network setup
\* created is removed: the netns, the veth pair, the PREROUTING DNAT rules
\* and the FORWARD rules of its ports.
C4_TeardownUndoesSetup ==
    \A i \in Returned("run") :
        (/\ ~inv[i].config.detach
         /\ inv[i].config.ports # <<>>
         /\ IsSome(inv[i].status)
         /\ faults = 0)
            => NoNetworkOf(inv[i].container_id)

\* C5: when rm of a container returns success, the directory of the container
\* does not exist and the namespace list does not hold its id.
C5_RmSuccessMeansGone ==
    \A i \in Returned("rm") :
        inv[i].result = Ok
            => /\ inv[i].container_id \notin DOMAIN containers
               /\ inv[i].container_id \notin netns

\* C6: when rm of a container returns success, and no command has failed, no
\* PREROUTING or OUTPUT DNAT rule that forwards to that container remains.
C6_RmDeletesDnatRules ==
    \A i \in Returned("rm") :
        (inv[i].result = Ok /\ faults = 0)
            => /\ DnatRulesTo("PREROUTING", inv[i].container_id) = {}
               /\ DnatRulesTo("OUTPUT", inv[i].container_id) = {}

\* C7: the directory of a container whose run has set it up (the run returned
\* success, or waits for the container, or sleeps after the spawn), no command
\* having failed, holds a metadata.json with the port mappings that the run
\* was given.
C7_MetadataWritten ==
    \A i \in Slots :
        (/\ inv[i].op = "run"
         /\ \/ inv[i].pc = "returned" /\ inv[i].result = Ok
            \/ inv[i].pc = "execute_container" /\ inv[i].step \in {1, 2}
         /\ inv[i].container_id \in DOMAIN containers
         /\ faults = 0)
            => /\ IsSome(containers[inv[i].container_id].metadata)
               /\ Unwrap(containers[inv[i].container_id].metadata).ports
                      = inv[i].config.ports

\* C8: rm of an id whose directory does not exist returns the
\* container-not-found error in its first step, and that step changes
\* nothing on the host: no rule, no process, no namespace, no directory; and
\* an rm that has returned that error does nothing more.
C8_RmMissingChangesNothing ==
    [][\A i \in Slots :
          /\ (/\ inv[i].op = "rm"
              /\ inv[i].pc = "remove_container" /\ inv[i].step = 0
              /\ inv[i].container_id \notin DOMAIN containers
              /\ inv'[i] # inv[i])
                => /\ inv'[i].pc = "returned"
                   /\ inv'[i].result = Err("ContainerNotFound", inv[i].container_id)
                   /\ UNCHANGED hostVars
          /\ (/\ inv[i].op = "rm"
              /\ inv[i].pc = "returned"
              /\ inv[i].result[2] = "ContainerNotFound"
              /\ inv'[i] # inv[i])
                => /\ inv'[i].pc = "idle"
                   /\ UNCHANGED hostVars]_vars

\* C8 witness: an rm has returned the container-not-found error on a host
\* that holds a container with its namespace, its process and FORWARD rules.
C8_Witness ==
    \E i \in Returned("rm") :
        /\ inv[i].result = Err("ContainerNotFound", inv[i].container_id)
        /\ iptables.FORWARD # <<>>
        /\ netns # {}
        /\ supervisors # {}
        /\ DOMAIN containers # {}

\* C9: a foreground run whose container has exited returns only after
\* cleanup_container_networking was called, whatever the exit status, and it
\* returns success for a zero exit and the container-exit error with the
\* code for any other; until the teardown it has returned nothing.
C9_ForegroundTeardownThenStatus ==
    \A i \in Slots :
        (inv[i].op = "run" /\ ~inv[i].config.detach /\ IsSome(inv[i].status)) =>
            LET status == Unwrap(inv[i].status) IN
            \/ /\ inv[i].pc = "cleanup_container_networking"
               /\ ~inv[i].cleaned
               /\ inv[i].result = <<>>
            \/ /\ inv[i].pc = "returned"
               /\ inv[i].cleaned
               /\ inv[i].result = IF status.code = Some(0) THEN Ok
                                  ELSE Err("ContainerExit", status.code)

\* C9 witness: a foreground run has returned the container-exit error with
\* code 1 after the teardown deleted its namespace.
C9_Witness ==
    \E i \in Returned("run") :
        /\ ~inv[i].config.detach
        /\ inv[i].status = Some(ExitStatus(Some(1)))
        /\ inv[i].cleaned
        /\ inv[i].result = Err("ContainerExit", Some(1))
        /\ inv[i].container_id \notin netns

\* C10: when a detached run returns success, no command having failed, it has
\* called no teardown, and the namespace and the directory of its container
\* exist (ps reports the container as running).
C10_DetachedStays ==
    \A i \in Returned("run") :
        (inv[i].config.detach /\ inv[i].result = Ok /\ faults = 0)
            => /\ ~inv[i].cleaned
               /\ inv[i].container_id \in DOMAIN containers
               /\ inv[i].container_id \in netns
               /\ NetnsListContains(inv[i].container_id)

----------------------------------------------------------------------------
(* The order and the rules of the network setup.                           *)

\* the positions of a run after create_network_namespace has succeeded
AfterNamespace ==
    {"ensure_bridge_exists", "setup_nat_rules", "create_veth_pair",
     "attach_veth_to_bridge", "move_veth_to_namespace",
     "configure_container_interface", "setup_port_forwarding",
     "execute_container"}

\* C11: IP forwarding is enabled on every run and before the namespace is
\* created: a run that has created its namespace and goes on with the later
\* setup steps works on a host with net.ipv4.ip_forward = 1.
C11_ForwardingBeforeNamespace ==
    \A i \in Slots :
        (inv[i].op = "run" /\ inv[i].pc \in AfterNamespace) => ip_forward

\* C12: when the network setup of a run with port mappings has succeeded (the
\* run is at the spawn, waits, or sleeps), no command having failed, every
\* mapping host_port:container_port has a DNAT rule to
\* <container_ip>:<container_port> on PREROUTING and on OUTPUT.
C12_DnatOnBothChains ==
    \A i \in Slots :
        (/\ inv[i].op = "run"
         /\ inv[i].pc = "execute_container"
         /\ inv[i].config.ports # <<>>
         /\ faults = 0)
            => \A k \in 1..Len(inv[i].config.ports) :
                 LET parts == Split(inv[i].config.ports[k], ":")
                     rule  == [target |-> "DNAT", dport |-> parts[1], dest |-> <<>>,
                               to |-> ContainerIp(inv[i].container_id)
                                        \o <<":">> \o parts[2]]
                 IN  /\ \E n \in 1..Len(iptables.PREROUTING) :
                            iptables.PREROUTING[n] = rule
                     /\ \E n \in 1..Len(iptables.OUTPUT) :
                            iptables.OUTPUT[n] = rule

----------------------------------------------------------------------------
(* The names that a run gives: the id, the devices.                        *)

\* C25: two run invocations never have the same container id, so that no
\* two containers share a directory or a namespace, not even two runs of
\* the same second.
C25_DistinctIds ==
    \A i, j \in Slots :
        (/\ i # j
         /\ inv[i].op = "run" /\ inv[i].container_id # <<>>
         /\ inv[j].op = "run" /\ inv[j].container_id # <<>>)
            => inv[i].container_id # inv[j].container_id

\* C26: a run whose id differs from the ids of the veth devices on the host
\* has names of its own for its veth pair: its ip link add does not fail
\* because of them (no command fails for a reason outside the model).
C26_OwnVethNames ==
    \A i \in Slots :
        (/\ inv[i].op = "run" /\ inv[i].pc = "returned"
         /\ inv[i].result = NetError(<<"veth add">>)
         /\ faults = 0)
            => \E l \in links : l.pair = inv[i].container_id

\* C28: when the network setup of a run has succeeded (no command having
\* failed for a reason outside the model), the MASQUERADE rule and the
\* bridge-to-bridge FORWARD ACCEPT rule are installed, also after an rm that
\* left the bridge device.
C28_NatRulesInstalled ==
    \A i \in Slots :
        (/\ inv[i].op = "run" /\ inv[i].pc = "execute_container"
         /\ faults = 0)
            => /\ \E k \in 1..Len(iptables.POSTROUTING) :
                      iptables.POSTROUTING[k] = MasqueradeRule
               /\ \E k \in 1..Len(iptables.FORWARD) :
                      iptables.FORWARD[k] = BridgeAcceptRule

C30_ContainerEndNotEnslaved ==
    \A l \in links : l.name = ContainerVeth(l.pair) => l.master = <<>>

----------------------------------------------------------------------------
(* The rootfs of a run and what a failing run leaves.                      *)

\* C31: the layer loop of a run extracts the layers one at a time in the
\* order of the manifest: turn k extracts layer k into the rootfs, the layers
\* before k being there, and the network setup follows the last layer only.
\* When the extraction of layer k fails the run returns the rootfs error of
\* that layer, the directory is left as it is, nothing of the network is
\* touched, and the run that has returned takes no further step.
C31_LayersInOrder ==
    [][\A i \in Slots :
          /\ (/\ inv[i].op = "run"
              /\ inv[i].pc = "create_container_filesystem" /\ inv[i].step = 1
              /\ inv'[i] # inv[i])
                 => LET m  == Unwrap(inv[i].manifest)
                        k  == inv[i].i + 1
                        id == inv[i].container_id
                        extracted ==
                            /\ \A n \in 1..(k - 1) :
                                   m.layers[n].digest \in containers[id].rootfs
                            /\ containers' =
                                   [containers EXCEPT ![id].rootfs =
                                        @ \cup {m.layers[k].digest}]
                            /\ inv'[i].i = k
                    IN  \/ /\ extracted
                           /\ k < Len(m.layers)
                           /\ inv'[i].pc = "create_container_filesystem"
                           /\ inv'[i].step = 1
                        \/ /\ extracted
                           /\ k = Len(m.layers)
                           /\ inv'[i].pc = "create_network_namespace"
                        \/ /\ inv'[i].pc = "returned"
                           /\ inv'[i].result = Err("Rootfs", m.layers[k].digest)
                           /\ id \in DOMAIN containers
                           /\ containers' = containers
                           /\ UNCHANGED <<netns, links, bridge, ip_forward, iptables,
                                          supervisors, payloads>>
          /\ (inv[i].op = "run" /\ inv[i].pc = "returned")
                 => inv'[i] \in {inv[i], IdleInv}]_vars

\* C31 witness: a run has returned the rootfs error of the second layer, its
\* directory holding the first layer only, on a host with no namespace, no
\* bridge, no device and no rule.
C31_Witness ==
    \E i \in Slots :
        /\ inv[i].op = "run" /\ inv[i].pc = "returned"
        /\ inv[i].result = Err("Rootfs", Layer2.digest)
        /\ inv[i].container_id \in DOMAIN containers
        /\ containers[inv[i].container_id].rootfs = {Layer1.digest}
        /\ netns = {} /\ links = {} /\ ~bridge.exists
        /\ iptables = [PREROUTING |-> <<>>, OUTPUT |-> <<>>,
                       POSTROUTING |-> <<>>, FORWARD |-> <<>>]

----------------------------------------------------------------------------
(* The runs on an image store that pulls and the user have left in any     *)
(* state.                                                                  *)

\* ./images when run is invoked: as PulledImages, or with the directory of
\* app removed, or with its manifest.json or its config blob cut short by
\* an interrupted pull over it, or with its config blob removed.
InitLookup ==
    LET app    == ImageDir(parse_image_tag(image_app)[1], parse_image_tag(image_app)[2])
        config == BlobFileName(ConfigA.digest)
        Stores ==
            { PulledImages,
              Drop(PulledImages, app),
              [PulledImages EXCEPT ![app][manifest_json] = ManifestContent(ManifestA, FALSE)],
              [PulledImages EXCEPT ![app] = Drop(@, config)],
              [PulledImages EXCEPT ![app][config] = BlobContent(ConfigA.digest, FALSE)] }
    IN  /\ images \in Stores
        /\ pull = PullIdle
        /\ HostInit

SpecLookup == InitLookup /\ [][Next]_vars

\* C32: a run whose image lookup fails (no directory of the image, no
\* manifest.json or one that does not decode, no config blob or one that does
\* not decode) returns its error from the lookup, and from its invocation
\* to its return the host and the stores are as they were: no container
\* directory, no namespace, no bridge, no device, no rule; and a run goes
\* beyond the lookup only when the manifest and the config blob are whole.
C32_FailedLookupCreatesNothing ==
    [][\A i \in Slots :
          LET parsed == parse_image_tag(inv[i].config.image)
              dir    == ImageDir(parsed[1], parsed[2])
              whole  ==
                  /\ dir \in DOMAIN images
                  /\ manifest_json \in DOMAIN images[dir]
                  /\ images[dir][manifest_json].complete
                  /\ LET c == BlobFileName(images[dir][manifest_json].body[1].config.digest)
                     IN  c \in DOMAIN images[dir] /\ images[dir][c].complete
              LookupErrors == {"ImageNotFoundLocally", "ManifestRead", "ManifestDecode",
                               "ConfigRead", "ConfigDecode"}
          IN  /\ (inv[i].pc = "idle" /\ inv'[i].op = "run")
                     => UNCHANGED <<images, hostVars>>
              /\ (inv[i].op = "run" /\ inv[i].pc = "find_local_image"
                  /\ inv'[i] # inv[i])
                     => /\ UNCHANGED <<images, hostVars>>
                        /\ IF whole
                           THEN inv'[i].pc = "create_container_filesystem"
                           ELSE /\ inv'[i].pc = "returned"
                                /\ inv'[i].result[1] = "Err"
                                /\ inv'[i].result[2] \in LookupErrors
                                /\ inv'[i].container_id = <<>>
              /\ (inv[i].op = "run" /\ inv[i].pc # "returned"
                  /\ inv'[i].pc = "returned"
                  /\ inv'[i].result[2] \in LookupErrors)
                     => inv[i].pc = "find_local_image"]_vars

\* C32 witness: on a host where nothing was created, a run has returned the
\* error of a config blob that an interrupted pull has cut short.
C32_Witness ==
    \E i \in Slots :
        /\ inv[i].op = "run" /\ inv[i].pc = "returned"
        /\ inv[i].result = Err("ConfigDecode", <<>>)
        /\ containers = EmptyFn /\ netns = {} /\ links = {} /\ ~bridge.exists
        /\ iptables = [PREROUTING |-> <<>>, OUTPUT |-> <<>>,
                       POSTROUTING |-> <<>>, FORWARD |-> <<>>]

----------------------------------------------------------------------------
(* main.rs: the command line.                                              *)

\* main on the words argv after the program name, when the handler that it
\* dispatches to returns Ok (handler_ok) or an error: the handler called
\* and the exit status.  main declares the subcommands run, pull, images and
\* ps; run takes an image and then the command words, pull an image, images
\* and ps nothing; get_matches() ends the process with status 2 on words
\* that the declared commands do not accept.
main(argv, handler_ok) ==
    LET Subcommands == {"run", "pull", "images", "ps"}
        ArgsAccepted(subcommand, args) ==
            CASE subcommand = "run"    -> Len(args) >= 1
              [] subcommand = "pull"   -> Len(args) = 1
              [] subcommand = "images" -> Len(args) = 0
              [] subcommand = "ps"     -> Len(args) = 0
        Handler(subcommand) ==
            CASE subcommand = "run"    -> "handle_run_command"
              [] subcommand = "pull"   -> "handle_pull_command"
              [] subcommand = "images" -> "handle_images_command"
              [] subcommand = "ps"     -> "handle_ps_command"
    IN  IF argv = <<>>
        THEN [handler |-> "none", exit |-> 1]
        ELSE IF argv[1] \notin Subcommands \/ ~ArgsAccepted(argv[1], Tail(argv))
        THEN [handler |-> "none", exit |-> 2]
        ELSE [handler |-> Handler(argv[1]), exit |-> IF handler_ok THEN 0 ELSE 1]

\* rustainer <argv> is run
CallMain ==
    /\ call.fn = "main" /\ ~call.returned
    /\ call' = [call EXCEPT !.out = main(call.args[1], call.args[2]),
                            !.returned = TRUE]
    /\ UNCHANGED <<images, pull, lifecycleNoCall>>

\* C13: the command line rm <id> is dispatched to the stop-and-remove
\* operation, and the process exits with 0 when that succeeds and with 1
\* when it returns an error.
C13_RmDispatched ==
    (/\ call.fn = "main" /\ call.returned
     /\ Len(call.args[1]) = 2
     /\ call.args[1][1] = "rm")
        => /\ call.out.handler = "remove_container"
           /\ call.out.exit = IF call.args[2] THEN 0 ELSE 1

----------------------------------------------------------------------------
(* run.rs: the command of the container.                                   *)

\* prepare_command(&config.command, &image_config.cmd, &image_config.entrypoint)
CallPrepareCommand ==
    /\ call.fn = "prepare_command" /\ ~call.returned
    /\ call' = [call EXCEPT
                   !.out = prepare_command(call.args[1], call.args[2], call.args[3]),
                   !.returned = TRUE]
    /\ UNCHANGED <<images, pull, lifecycleNoCall>>

\* C15: a user command is the argv as it is; without one, a non-empty
\* Entrypoint gives the words of the Entrypoint followed by those of Cmd;
\* without either, a non-empty Cmd gives Cmd; else the argv is ["/bin/sh"].
C15_CommandSelection ==
    (call.fn = "prepare_command" /\ call.returned) =>
        LET user == call.args[1]
            cmd  == call.args[2]
            ep   == call.args[3]
            argv == call.out
        IN  /\ user # <<>> => argv = user[1]
            /\ (user = <<>> /\ ep # <<>>) =>
                  /\ Len(argv) = Len(ep) + Len(cmd)
                  /\ \A k \in 1..Len(ep) : argv[k] = ep[k]
                  /\ \A k \in 1..Len(cmd) : argv[Len(ep) + k] = cmd[k]
            /\ (user = <<>> /\ ep = <<>> /\ cmd # <<>>) => argv = cmd
            /\ (user = <<>> /\ ep = <<>> /\ cmd = <<>>) =>
                  argv = << <<"/", "b", "i", "n", "/", "s", "h">> >>

\* C15 witness: without a user command, an Entrypoint of one word and a Cmd
\* of two words have given an argv of three words.
C15_Witness ==
    /\ call.fn = "prepare_command" /\ call.returned
    /\ call.args[1] = <<>>
    /\ call.args[3] = << <<"l", "s">> >>
    /\ call.args[2] = <<bin_sh, <<"l", "s">> >>
    /\ call.out = << <<"l", "s">>, bin_sh, <<"l", "s">> >>

----------------------------------------------------------------------------
(* run.rs: the environment of the container.                               *)

\* prepare_environment(&config.env, &image_config.env)
CallPrepareEnvironment ==
    /\ call.fn = "prepare_environment" /\ ~call.returned
    /\ call' = [call EXCEPT
                   !.out = prepare_environment(call.args[1], call.args[2]),
                   !.returned = TRUE]
    /\ UNCHANGED <<images, pull, lifecycleNoCall>>

\* C17: the environment has exactly the keys of the entries that hold a '=',
\* cut at the first '='; a key's value is that of the user's last entry with
\* the key, and without one that of the image's last entry with the key.
C17_EnvironmentMerge ==
    (call.fn = "prepare_environment" /\ call.returned) =>
        LET user  == call.args[1]
            image == call.args[2]
            env   == call.out
            all   == image \o user
            \* the entry holds a '=' and key is what stands before the first
            HasKey(entry, key) ==
                \E p \in 1..Len(entry) :
                    /\ entry[p] = "="
                    /\ \A j \in 1..(p - 1) : entry[j] # "="
                    /\ key = [j \in 1..(p - 1) |-> entry[j]]
            \* what stands behind the first '=' of an entry that holds one
            ValueOf(entry) ==
                LET p == CHOOSE q \in 1..Len(entry) :
                             entry[q] = "=" /\ \A j \in 1..(q - 1) : entry[j] # "="
                IN  [j \in 1..(Len(entry) - p) |-> entry[p + j]]
            \* the index of the last entry of the list with that key, or 0
            LastWithKey(list, key) ==
                IF \E k \in 1..Len(list) : HasKey(list[k], key)
                THEN CHOOSE k \in 1..Len(list) :
                         /\ HasKey(list[k], key)
                         /\ \A m \in (k + 1)..Len(list) : ~HasKey(list[m], key)
                ELSE 0
        IN  /\ \A key \in DOMAIN env : \E k \in 1..Len(all) : HasKey(all[k], key)
            /\ \A k \in 1..Len(all) : \A p \in 1..Len(all[k]) :
                  HasKey(all[k], SubSeq(all[k], 1, p - 1)) =>
                      LET key == SubSeq(all[k], 1, p - 1) IN
                      /\ key \in DOMAIN env
                      /\ env[key] =
                            IF LastWithKey(user, key) # 0
                            THEN ValueOf(user[LastWithKey(user, key)])
                            ELSE ValueOf(image[LastWithKey(image, key)])

\* C17 witness: the image sets A and the user sets A and an entry without
\* '='; A has the user's value, with the second '=' kept in it.
C17_Witness ==
    /\ call.fn = "prepare_environment" /\ call.returned
    /\ call.args[2] = << <<"A", "=", "2">> >>
    /\ call.args[1] = << <<"A", "=", "1", "=", "2">>, <<"A">> >>
    /\ DOMAIN call.out = { <<"A">> }
    /\ call.out[<<"A">>] = <<"1", "=", "2">>

----------------------------------------------------------------------------
(* run.rs: the port mappings.                                              *)

\* parse_port_mapping(port_mapping)
CallParsePortMapping ==
    /\ call.fn = "parse_port_mapping" /\ ~call.returned
    /\ call' = [call EXCEPT !.out = parse_port_mapping(call.args[1]),
                            !.returned = TRUE]
    /\ UNCHANGED <<images, pull, lifecycleNoCall>>

----------------------------------------------------------------------------
(* pull.rs: the image reference.                                           *)

\* parse_image_tag(image_tag)
CallParseImageTag ==
    /\ call.fn = "parse_image_tag" /\ ~call.returned
    /\ call' = [call EXCEPT !.out = parse_image_tag(call.args[1]),
                            !.returned = TRUE]
    /\ UNCHANGED <<images, pull, lifecycleNoCall>>

\* C19: an image reference r:t whose t is not empty and holds no ':' gives
\* (r', t), r' being r if r holds a '/' and library/r if not; and whatever
\* the reference, the (R, T) it gives is also what R:T gives.
C19_ImageRefRoundTrip ==
    (call.fn = "parse_image_tag" /\ call.returned) =>
        LET s == call.args[1]
            R == call.out[1]
            T == call.out[2]
        IN  /\ \A p \in 1..(Len(s) - 1) :
                  (s[p] = ":" /\ \A j \in (p + 1)..Len(s) : s[j] # ":") =>
                      LET r == [j \in 1..(p - 1) |-> s[j]] IN
                      /\ T = [j \in 1..(Len(s) - p) |-> s[p + j]]
                      /\ R = IF \E j \in 1..(p - 1) : s[j] = "/"
                             THEN r
                             ELSE <<"l", "i", "b", "r", "a", "r", "y", "/">> \o r
            /\ parse_image_tag(R \o <<":">> \o T) = <<R, T>>

\* C19 witness: "a:a" has given (library/a, a), as "library/a:a" does.
C19_Witness ==
    /\ call.fn = "parse_image_tag" /\ call.returned
    /\ call.args[1] = <<"a", ":", "a">>
    /\ call.out = <<library_ \o <<"a">>, <<"a">> >>
    /\ parse_image_tag(library_ \o <<"a", ":", "a">>) = call.out

\* C20: the tag that an image reference gives is never empty.
C20_TagNeverEmpty ==
    (call.fn = "parse_image_tag" /\ call.returned) => call.out[2] # <<>>

----------------------------------------------------------------------------
(* run.rs: the address of the container.                                   *)

\* container_ip as configure_container_interface gives it to ip addr add,
\* and the --to-destination that setup_port_forwarding makes of it for the
\* mapping 80:8080
CallContainerIp ==
    /\ call.fn = "container_ip" /\ ~call.returned
    /\ call' = [call EXCEPT
                   !.out = [addr |-> ContainerIp(call.args[1]) \o slash16,
                            to   |-> DnatRule(80, ContainerIp(call.args[1]), 8080).to],
                   !.returned = TRUE]
    /\ UNCHANGED <<images, pull, lifecycleNoCall>>

\* C21: the address of a container is 172.18.0.n with n the length of the
\* container id modulo 254 plus 2, whatever the characters of the id; n is
\* in 2..255; eth0 gets this address (with /16) and the DNAT rules of the
\* container have the same address as their destination.
C21_ContainerIp ==
    (call.fn = "container_ip" /\ call.returned) =>
        LET digit(d) == SubSeq(<<"0", "1", "2", "3", "4", "5", "6", "7", "8", "9">>,
                               d + 1, d + 1)
            text(n) == IF n < 10 THEN digit(n)
                       ELSE IF n < 100 THEN digit(n \div 10) \o digit(n % 10)
                       ELSE digit(n \div 100) \o digit((n \div 10) % 10) \o digit(n % 10)
            net == <<"1", "7", "2", ".", "1", "8", ".", "0", ".">>
        IN  \E n \in 2..255 :
               /\ n = (Len(call.args[1]) % 254) + 2
               /\ call.out.addr = net \o text(n) \o <<"/", "1", "6">>
               /\ call.out.to = net \o text(n) \o <<":", "8", "0", "8", "0">>

\* C21 witness: an id of 253 characters has given 172.18.0.255, to eth0 and
\* as the destination.
C21_Witness ==
    /\ call.fn = "container_ip" /\ call.returned
    /\ Len(call.args[1]) = 253
    /\ call.out.addr = ip_prefix \o <<"2", "5", "5">> \o slash16
    /\ call.out.to = ip_prefix \o <<"2", "5", "5", ":", "8", "0", "8", "0">>

\* container_ip of two runs, as each gives it to ip addr add
CallContainerIps ==
    /\ call.fn = "container_ips" /\ ~call.returned
    /\ call' = [call EXCEPT
                   !.out = <<ContainerIp(call.args[1]) \o slash16,
                             ContainerIp(call.args[2]) \o slash16>>,
                   !.returned = TRUE]
    /\ UNCHANGED <<images, pull, lifecycleNoCall>>

----------------------------------------------------------------------------
(* actions/ls.rs: the status that ps prints.                               *)

\* list_containers: the STATUS column of the row of each entry of
\* ./containers, by netns_output.contains(&container_id) on the output of
\* ip netns list (one name a line)
list_containers(entries, names) ==
    [container_id \in entries |->
        IF \E name \in names : Contains(name, container_id) THEN "Up" ELSE "Exited"]

\* rustainer ps, with the entries of ./containers and the namespaces listed
CallListContainers ==
    /\ call.fn = "list_containers" /\ ~call.returned
    /\ call' = [call EXCEPT !.out = list_containers(call.args[1], call.args[2]),
                            !.returned = TRUE]
    /\ UNCHANGED <<images, pull, lifecycleNoCall>>

\* C23: ps prints Up for an entry c of ./containers if and only if a
\* namespace named c is listed, and Exited otherwise; the namespace of
\* another container does not make c Up.
C23_UpIffOwnNamespace ==
    (call.fn = "list_containers" /\ call.returned) =>
        \A c \in call.args[1] :
            call.out[c] = IF c \in call.args[2] THEN "Up" ELSE "Exited"

----------------------------------------------------------------------------
(* run.rs: the environment that the container process is started with.     *)

\* execute_container(.., env_vars, ..) in two invocations of rustainer that
\* differ in the environment of the invoking process only
CallExecuteContainer ==
    /\ call.fn = "execute_container" /\ ~call.returned
    /\ call' = [call EXCEPT
                   !.out = <<ChildEnv(call.args[1], call.args[3]),
                             ChildEnv(call.args[2], call.args[3])>>,
                   !.returned = TRUE]
    /\ UNCHANGED <<images, pull, lifecycleNoCall>>

\* C34: two runs with the same image Env and the same -e entries give the
\* container process the same environment, whatever the environments of
\* the processes that invoke them.
C34_EnvFromImageAndUserOnly ==
    (call.fn = "execute_container" /\ call.returned) =>
        call.out[1] = call.out[2]

----------------------------------------------------------------------------
(* The functions on their own, each called on every input of its set.      *)

\* Bounds: the words of a command, of an image Cmd and of an Entrypoint; the
\* entries of the image's Env and of the user's together; the parts, joined
\* by ':', of a port mapping; the length of an image reference.
MaxArgs == 2
MaxEnvs == 3
MaxParts == 3
MaxRefLen == 4
\* Bound: the length of a container id (the ids of run have 11 characters and
\* more; the length is taken modulo 254).
MaxIdLen == 260

\* The calls that are tried, none returned yet.
Calls ==
    LET Pending(fn, args) ==
            [fn |-> fn, args |-> args, out |-> <<>>, returned |-> FALSE]
        \* a known and an unknown first word, followed by none or one word
        CommandWords == {"run", "pull", "images", "ps", "rm"}
        CommandLines ==
            {<<>>} \cup {<<w>> : w \in CommandWords}
                   \cup {<<w, x>> : w \in CommandWords,
                                    x \in {image_app, ContainerId(0)}}
        \* the ids of runs of the seconds 1, 2, 9 and 10; the namespaces
        \* listed are those of some of the containers
        CreatedIds == {ContainerId(t) : t \in {1, 2, 9, 10}}
        \* every list of up to MaxArgs words
        ArgLists == UNION {[1..n -> {bin_sh, <<"l", "s">>}] : n \in 0..MaxArgs}
        \* two values of a key, a second key, an entry without '=', an empty
        \* key, a value that holds a '='
        EnvEntries ==
            { <<"A", "=", "1">>, <<"A", "=", "2">>, <<"B", "=", "1">>, <<"A">>,
              <<"=", "1">>, <<"A", "=", "1", "=", "2">> }
        EnvLists == UNION {[1..n -> EnvEntries] : n \in 0..MaxEnvs}
        \* every join by ':' of up to MaxParts of these texts
        PortTexts ==
            << <<>>, <<"0">>, <<"8", "0">>, <<"8", "0", "8", "0">>,
               <<"6", "5", "5", "3", "5">>, <<"6", "5", "5", "3", "6">>,
               <<"a", "b">>, <<"+", "8", "0">>, <<"-", "1">>, <<"0", "8", "0">>,
               <<"8", "0", " ">> >>
        Joined(ix) ==
            LET J[k \in 0..Len(ix)] ==
                    IF k = 0 THEN <<>>
                    ELSE J[k - 1] \o (IF k = 1 THEN <<>> ELSE <<":">>)
                                  \o PortTexts[ix[k]]
            IN  J[Len(ix)]
        \* environments of the invoking process: none, a variable that the
        \* entries name, one that they do not name, both
        HostEnvs ==
            { EmptyFn,
              Put(EmptyFn, <<"A">>, <<"9">>),
              Put(EmptyFn, <<"H">>, <<"9">>),
              Put(Put(EmptyFn, <<"A">>, <<"9">>), <<"H">>, <<"9">>) }
        PortMappings ==
            {Joined(ix) :
                 ix \in UNION {[1..n -> 1..Len(PortTexts)] : n \in 1..MaxParts}}
    IN  {Pending("main", <<argv, handler_ok>>) :
             argv \in CommandLines, handler_ok \in BOOLEAN}
        \cup {Pending("prepare_command", <<user_cmd, image_cmd, image_entrypoint>>) :
                  user_cmd \in {NoneV} \cup {Some(l) : l \in ArgLists},
                  image_cmd \in ArgLists, image_entrypoint \in ArgLists}
        \cup {Pending("prepare_environment", envs) :
                  envs \in {e \in EnvLists \X EnvLists : Len(e[1]) + Len(e[2]) <= MaxEnvs}}
        \cup {Pending("execute_container",
                      <<a[1], a[2], prepare_environment(a[3][1], a[3][2])>>) :
                  a \in HostEnvs \X HostEnvs
                          \X {e \in EnvLists \X EnvLists :
                                  Len(e[1]) + Len(e[2]) <= MaxEnvs}}
        \cup {Pending("parse_port_mapping", <<port_mapping>>) :
                  port_mapping \in PortMappings}
        \cup {Pending("container_ip", <<container_id>>) :
                  container_id \in ContainerIds
                      \cup {[k \in 1..n |-> "r"] : n \in 0..MaxIdLen}}
        \cup {Pending("container_ips", a) : a \in CreatedIds \X CreatedIds}
        \cup {Pending("list_containers", a) :
                  a \in {b \in (SUBSET CreatedIds) \X (SUBSET CreatedIds) :
                             b[2] \subseteq b[1]}}
        \cup {Pending("parse_image_tag", <<image_tag>>) :
                  image_tag \in UNION {[1..n -> {"a", "/", ":"}] : n \in 0..MaxRefLen}}

InitPure ==
    /\ images = EmptyFn
    /\ pull = PullIdle
    /\ HostInitNoCall
    /\ call \in Calls
    /\ sched = "serial"

NextPure ==
    \/ CallMain
    \/ CallPrepareCommand
    \/ CallPrepareEnvironment
    \/ CallParsePortMapping
    \/ CallParseImageTag
    \/ CallContainerIp
    \/ CallContainerIps
    \/ CallListContainers
    \/ CallExecuteContainer

SpecPure == InitPure /\ [][NextPure]_vars

====
